---- MODULE Spec2Model ----
(***************************************************************************)
(* Two-phase constructive scheduler of the dance studio schedule optimizer *)
(* (scheduler.py, room_scheduler.py, teacher_scheduler.py).                *)
(*                                                                         *)
(* Phase 1 seeds a room availability matrix, ranks the classes by          *)
(* difficulty and places them greedily on (room, day, start_slot).         *)
(* Phase 2 sorts the placed classes chronologically and gives each one the *)
(* best available teacher.  The model follows the code one loop iteration  *)
(* per step.                                                               *)
(*                                                                         *)
(* A Python dict mapping (id, day, slot) to a bool is modelled as the set  *)
(* of keys whose value is True: the code only ever reads such a dict with  *)
(* .get(key, False) or tests the truth of a stored value, so a stored      *)
(* False and an absent key cannot be told apart.                           *)
(***************************************************************************)
EXTENDS Integers, Sequences, FiniteSets, TLC

VARIABLES
    classes_df,              \* rows of the classes sheet (empty once only the class dicts matter)
    room_availability_df,    \* rows of the room availability sheet still to be read
    rooms,                   \* input: list of room dicts
    classes,                 \* input: list of class dicts
    room_availability,       \* input: keys (room_id, day_idx, slot_idx) that are True
    class_preferences,       \* input: class_id -> kind -> list of {value, weight}
    teacher_availability,    \* input: keys (teacher_id, day_idx, slot_idx) that are True
    teacher_specializations, \* input: teacher_id -> kind -> list of values
    pc,                      \* position in schedule_classes
    room_time_slots,         \* phase 1 working matrix (keys that are True)
    sorted_classes,          \* classes in difficulty order
    idx,                     \* number of loop iterations done in the current loop
    scheduled_classes,       \* placements, in the order of the list object
    unscheduled_classes,     \* classes without a room-time slot
    teacher_avail,           \* phase 2 working copy of teacher availability
    assigned_classes,        \* final_scheduled
    unassigned_classes,      \* unscheduled_from_teachers
    stats,                   \* statistics dict
    df,                      \* check_overlaps.py: rows of the "Schedule" sheet
    overlaps,                \* check_overlaps.py: pairs of row indices reported
    row_i,                   \* check_overlaps.py: outer loop index i
    row_j                    \* check_overlaps.py: inner loop index j

inputs == <<classes_df, room_availability_df, rooms, classes, room_availability, class_preferences,
            teacher_availability, teacher_specializations>>

\* the inputs other than the two availability dicts
other_inputs == <<classes_df, room_availability_df, rooms, classes,
                  class_preferences, teacher_specializations>>

audit == <<df, overlaps, row_i, row_j>>

vars == <<classes_df, room_availability_df, rooms, classes, room_availability, class_preferences,
          teacher_availability, teacher_specializations, pc, room_time_slots,
          sorted_classes, idx, scheduled_classes, unscheduled_classes,
          teacher_avail, assigned_classes, unassigned_classes, stats,
          df, overlaps, row_i, row_j>>

(***************************************************************************)
(* Bounds of the model.  The code enumerates range(7) days and range(96)   *)
(* quarter-hour slots; the model enumerates the first NumDays days and the *)
(* first NumSlots slots of a day.                                          *)
(***************************************************************************)
NumDays == 2

NumSlots == 4

MaxDuration == 2

Days == 0 .. (NumDays - 1)

Slots == 0 .. (NumSlots - 1)

\* Python's None; the ids of the inputs are positive
None == 0

(***************************************************************************)
(* Generic helpers                                                         *)
(***************************************************************************)
Range(seq) == {seq[i] : i \in 1 .. Len(seq)}

SetMax(S) == CHOOSE x \in S : \A y \in S : y <= x

SetMin(S) == CHOOSE x \in S : \A y \in S : x <= y

\* Python's `key in d` for a dict modelled as a function
HasKey(d, k) == k \in DOMAIN d

(***************************************************************************)
(* data_loader.py: day names                                               *)
(***************************************************************************)
DayNames == <<"Monday", "Tuesday", "Wednesday", "Thursday", "Friday",
              "Saturday", "Sunday">>

index_to_day(index) ==
    IF 0 <= index /\ index < Len(DayNames) THEN DayNames[index + 1] ELSE None

day_to_index(day) ==
    IF \E i \in 1 .. Len(DayNames) : DayNames[i] = day
    THEN (CHOOSE i \in 1 .. Len(DayNames) : DayNames[i] = day) - 1
    ELSE -1

(***************************************************************************)
(* room_scheduler.py: create_room_availability_matrix                      *)
(***************************************************************************)
\* `room["is_combined"] and room["component_rooms"]`
HasComponents(room) == room.is_combined /\ Len(room.component_rooms) > 0

\* lines 34-39: for each component name the id of the FIRST room of that name
ComponentIds(rms, room) ==
    {rms[i].room_id : i \in {j \in 1 .. Len(rms) :
        \E n \in 1 .. Len(room.component_rooms) :
            /\ rms[j].room_name = room.component_rooms[n]
            /\ \A k \in 1 .. (j - 1) :
                   rms[k].room_name # room.component_rooms[n]}}

\* lines 52-59: the combined rooms that list this room's name
CombinedRoomIds(rms, room) ==
    {rms[i].room_id : i \in {j \in 1 .. Len(rms) :
        /\ HasComponents(rms[j])
        /\ room.room_name \in Range(rms[j].component_rooms)}}

\* lines 26-43 with line 43 storing True
SeedCombinedRoom_MarksTrue(rms, m, room) ==
    IF HasComponents(room)
    THEN m \cup {<<c, k[2], k[3]>> :
                    c \in ComponentIds(rms, room),
                    k \in {key \in m : key[1] = room.room_id}}
    ELSE m

\* lines 26-43, one room of the first loop: where a combined room is
\* available its component rooms are marked False
SeedCombinedRoom(rms, m, room) ==
    IF HasComponents(room)
    THEN m \ {<<c, k[2], k[3]>> :
                 c \in ComponentIds(rms, room),
                 k \in {key \in m : key[1] = room.room_id}}
    ELSE m

\* lines 46-67, one room of the second loop: where a non-combined room is
\* (still) available the combined rooms that list it are marked False
SeedComponentRoom(rms, m, room) ==
    IF ~room.is_combined
    THEN m \ {<<c, k[2], k[3]>> :
                 c \in CombinedRoomIds(rms, room),
                 k \in {key \in m : key[1] = room.room_id}}
    ELSE m

RECURSIVE SeedCombinedLoop(_, _, _)
SeedCombinedLoop(rms, m, i) ==
    IF i > Len(rms) THEN m
    ELSE SeedCombinedLoop(rms, SeedCombinedRoom(rms, m, rms[i]), i + 1)

RECURSIVE SeedComponentLoop(_, _, _)
SeedComponentLoop(rms, m, i) ==
    IF i > Len(rms) THEN m
    ELSE SeedComponentLoop(rms, SeedComponentRoom(rms, m, rms[i]), i + 1)

\* lines 22-23 and 69 only: the copy is returned as it is
create_room_availability_matrix_CopyOnly(rms, avail) == avail

\* lines 22-69: the copy, the loop over the combined rooms, then the loop
\* over the other rooms
create_room_availability_matrix(rms, avail) ==
    SeedComponentLoop(rms, SeedCombinedLoop(rms, avail, 1), 1)

(***************************************************************************)
(* room_scheduler.py: sort_classes_by_difficulty                           *)
(*                                                                         *)
(* The code adds 50 / len(room prefs) and 30 / len(day prefs) as floats.   *)
(* The model keeps every score multiplied by DifficultyScale, a common     *)
(* multiple of all the divisors, so that the comparison is exact.          *)
(***************************************************************************)
RECURSIVE SetToSeq(_)
SetToSeq(S) ==
    IF S = {} THEN <<>>
    ELSE LET x == CHOOSE y \in S : TRUE IN <<x>> \o SetToSeq(S \ {x})

PrefLen(cp, class_id, kind) ==
    IF HasKey(cp, class_id) /\ HasKey(cp[class_id], kind)
    THEN Len(cp[class_id][kind]) ELSE 0

\* product of the third components of a sequence of triples
RECURSIVE TripleProduct(_)
TripleProduct(seq) ==
    IF Len(seq) = 0 THEN 1 ELSE Head(seq)[3] * TripleProduct(Tail(seq))

DifficultyScale(cls, cp) ==
    TripleProduct(SetToSeq(
        {t \in {<<i, kind, PrefLen(cp, cls[i].class_id, kind)>> :
                   i \in 1 .. Len(cls), kind \in {"room", "day"}} : t[3] > 0}))

\* lines 85-117: the score of one class, times scale
difficulty_score(class_data, cp, scale) ==
    LET class_id == class_data.class_id
        base == class_data.duration_slots * 10 * scale
    IN  IF HasKey(cp, class_id)
        THEN LET prefs == cp[class_id]
                 room == IF HasKey(prefs, "room")
                         THEN (50 * scale) \div Len(prefs["room"])
                         ELSE -20 * scale
                 day  == IF HasKey(prefs, "day")
                         THEN (30 * scale) \div Len(prefs["day"])
                         ELSE -15 * scale
                 time == IF HasKey(prefs, "time")
                         THEN Len(prefs["time"]) * 5 * scale
                         ELSE 0
             IN  base + room + day + time
        ELSE base

\* the tuple order with the scores compared the other way round
ScorePairLess_ScoreAscending(a, b) == a[1] > b[1] \/ (a[1] = b[1] /\ a[2] < b[2])

\* the tuple order with the ids compared the other way round
ScorePairLess_IdAscending(a, b) == a[1] < b[1] \/ (a[1] = b[1] /\ a[2] > b[2])

\* Python's tuple order on (score, class_id)
ScorePairLess(a, b) == a[1] < b[1] \/ (a[1] = b[1] /\ a[2] < b[2])

\* line 120: class_scores.sort(reverse=True)
RECURSIVE SortPairsDescending(_)
SortPairsDescending(S) ==
    IF S = {} THEN <<>>
    ELSE LET top == CHOOSE a \in S : \A b \in S : b = a \/ ScorePairLess(b, a)
         IN  <<top>> \o SortPairsDescending(S \ {top})

\* lines 125-128: the first class of the list with that class_id
FirstClassWithId(cls, class_id) ==
    cls[SetMin({i \in 1 .. Len(cls) : cls[i].class_id = class_id})]

\* lines 85-130 with the append of line 117 inside the `if` of line 92
sort_classes_by_difficulty_AppendInsideIf(cls, cp) ==
    LET scale == DifficultyScale(cls, cp)
        class_scores ==
            SortPairsDescending(
                {<<difficulty_score(cls[i], cp, scale), cls[i].class_id>> :
                    i \in {k \in 1 .. Len(cls) : HasKey(cp, cls[k].class_id)}})
    IN  [n \in 1 .. Len(class_scores) |->
            FirstClassWithId(cls, class_scores[n][2])]

\* lines 85-130
sort_classes_by_difficulty(cls, cp) ==
    LET scale == DifficultyScale(cls, cp)
        class_scores ==
            SortPairsDescending(
                {<<difficulty_score(cls[i], cp, scale), cls[i].class_id>> :
                    i \in 1 .. Len(cls)})
    IN  [n \in 1 .. Len(class_scores) |->
            FirstClassWithId(cls, class_scores[n][2])]

(***************************************************************************)
(* room_scheduler.py: find_compatible_slots                                *)
(***************************************************************************)
\* lines 151-162: the values of the preferences of one kind ([] if none)
PreferredValues(cp, class_id, kind) ==
    IF HasKey(cp, class_id) /\ HasKey(cp[class_id], kind)
    THEN [i \in 1 .. Len(cp[class_id][kind]) |-> cp[class_id][kind][i].value]
    ELSE <<>>

\* lines 184-189 with the check of the first slot only
Fits_FirstSlotOnly(m, room_id, day_idx, start_slot, duration_slots) ==
    <<room_id, day_idx, start_slot>> \in m

\* lines 184-189 with `fits` set by any free slot of the class
Fits_AnySlot(m, room_id, day_idx, start_slot, duration_slots) ==
    \E offset \in 0 .. (duration_slots - 1) :
        <<room_id, day_idx, start_slot + offset>> \in m

\* lines 184-189 with the loop one offset short
Fits_ButLastSlot(m, room_id, day_idx, start_slot, duration_slots) ==
    \A offset \in 0 .. (duration_slots - 2) :
        <<room_id, day_idx, start_slot + offset>> \in m

\* lines 184-189: every slot of the class is True in the matrix
Fits(m, room_id, day_idx, start_slot, duration_slots) ==
    \A offset \in 0 .. (duration_slots - 1) :
        <<room_id, day_idx, start_slot + offset>> \in m

\* lines 165-192 without the room filter of lines 169-170
find_compatible_slots_AnyRoom(class_data, m, rms, cp) ==
    LET class_id == class_data.class_id
        preferred_days == PreferredValues(cp, class_id, "day")
        preferred_times == PreferredValues(cp, class_id, "time")
    IN  {slot \in {rms[i].room_id : i \in 1 .. Len(rms)} \X Days \X Slots :
            /\ Len(preferred_days) > 0
                   => index_to_day(slot[2]) \in Range(preferred_days)
            /\ Len(preferred_times) > 0 => slot[3] \in Range(preferred_times)
            /\ Fits(m, slot[1], slot[2], slot[3], class_data.duration_slots)}

\* lines 165-192 without the time filter of lines 179-181
find_compatible_slots_AnyTime(class_data, m, rms, cp) ==
    LET class_id == class_data.class_id
        preferred_rooms == PreferredValues(cp, class_id, "room")
        preferred_days == PreferredValues(cp, class_id, "day")
    IN  {slot \in {rms[i].room_id : i \in 1 .. Len(rms)} \X Days \X Slots :
            /\ Len(preferred_rooms) > 0 => slot[1] \in Range(preferred_rooms)
            /\ Len(preferred_days) > 0
                   => index_to_day(slot[2]) \in Range(preferred_days)
            /\ Fits(m, slot[1], slot[2], slot[3], class_data.duration_slots)}

\* lines 165-192 without the day filter of lines 173-176
find_compatible_slots_AnyDay(class_data, m, rms, cp) ==
    LET class_id == class_data.class_id
        preferred_rooms == PreferredValues(cp, class_id, "room")
        preferred_times == PreferredValues(cp, class_id, "time")
    IN  {slot \in {rms[i].room_id : i \in 1 .. Len(rms)} \X Days \X Slots :
            /\ Len(preferred_rooms) > 0 => slot[1] \in Range(preferred_rooms)
            /\ Len(preferred_times) > 0 => slot[3] \in Range(preferred_times)
            /\ Fits(m, slot[1], slot[2], slot[3], class_data.duration_slots)}

\* lines 165-192.  The list is returned as a set: the only use of the list
\* is the sort of (score, slot) pairs, which are pairwise different.
find_compatible_slots(class_data, m, rms, cp) ==
    LET class_id == class_data.class_id
        preferred_rooms == PreferredValues(cp, class_id, "room")
        preferred_days == PreferredValues(cp, class_id, "day")
        preferred_times == PreferredValues(cp, class_id, "time")
    IN  {slot \in {rms[i].room_id : i \in 1 .. Len(rms)} \X Days \X Slots :
            /\ Len(preferred_rooms) > 0 => slot[1] \in Range(preferred_rooms)
            /\ Len(preferred_days) > 0
                   => index_to_day(slot[2]) \in Range(preferred_days)
            /\ Len(preferred_times) > 0 => slot[3] \in Range(preferred_times)
            /\ Fits(m, slot[1], slot[2], slot[3], class_data.duration_slots)}

(***************************************************************************)
(* room_scheduler.py: score_slot                                           *)
(***************************************************************************)
\* `for p in prefs: if cond(p): score += p["weight"] * factor; break`
FirstMatchWeight(prefs, Matches(_), factor) ==
    LET hits == {i \in 1 .. Len(prefs) : Matches(prefs[i])}
    IN  IF hits = {} THEN 0 ELSE prefs[SetMin(hits)].weight * factor

\* lines 220-224
RoomPreferenceScore(slot, class_data, cp) ==
    LET RoomMatch(p) == p.value = slot[1]
    IN  IF HasKey(cp, class_data.class_id)
           /\ HasKey(cp[class_data.class_id], "room")
        THEN FirstMatchWeight(cp[class_data.class_id]["room"], RoomMatch, 10)
        ELSE 0

\* lines 227-232
DayPreferenceScore(slot, class_data, cp) ==
    LET DayMatch(p) == p.value = index_to_day(slot[2])
    IN  IF HasKey(cp, class_data.class_id)
           /\ HasKey(cp[class_data.class_id], "day")
        THEN FirstMatchWeight(cp[class_data.class_id]["day"], DayMatch, 8)
        ELSE 0

\* lines 235-245
TimePreferenceScore(slot, class_data, cp) ==
    LET TimeMatch(p) == /\ p.value \in Int
                        /\ p.value <= slot[3]
                        /\ slot[3] < p.value + class_data.duration_slots
    IN  IF HasKey(cp, class_data.class_id)
           /\ HasKey(cp[class_data.class_id], "time")
        THEN FirstMatchWeight(cp[class_data.class_id]["time"], TimeMatch, 5)
        ELSE 0

\* lines 216-245
PreferenceScore(slot, class_data, cp) ==
    RoomPreferenceScore(slot, class_data, cp)
  + DayPreferenceScore(slot, class_data, cp)
  + TimePreferenceScore(slot, class_data, cp)

\* number of entries of a list that satisfy a test
CountIn(seq, Test(_)) == Cardinality({i \in 1 .. Len(seq) : Test(seq[i])})

\* lines 248-260
RoomBalanceScore(slot, scheduled, rms) ==
    LET room_ids == {rms[i].room_id : i \in 1 .. Len(rms)}
        room_count(r) == LET InRoom(c) == c.room_id = r
                         IN  CountIn(scheduled, InRoom)
        current_room_count ==
            IF slot[1] \in room_ids THEN room_count(slot[1]) ELSE 0
        max_room_count ==
            IF room_ids # {} THEN SetMax({room_count(r) : r \in room_ids})
            ELSE 0
    IN  IF max_room_count > 0
        THEN (max_room_count - current_room_count) * 3 ELSE 0

\* lines 263-271: day_counts has a key for each of the seven days
DayBalanceScore(slot, scheduled) ==
    LET day_count(d) == LET OnDay(c) == c.day_idx = d
                        IN  CountIn(scheduled, OnDay)
        current_day_count == day_count(slot[2])
        max_day_count ==
            SetMax({day_count(d) : d \in 0 .. (Len(DayNames) - 1)})
    IN  IF max_day_count > 0
        THEN (max_day_count - current_day_count) * 2 ELSE 0

\* lines 276-299 with line 281 comparing the start of the scheduled class
ContinuityBonus_ComparesStart(slot, class_data, sc) ==
    IF sc.room_id = slot[1] /\ sc.day_idx = slot[2]
    THEN (IF sc.start_slot = slot[3]
          THEN (IF sc.style = class_data.style THEN 5 ELSE 0)
             + (IF sc.level + 1 = class_data.level THEN 3 ELSE 0)
          ELSE 0)
       + (IF slot[3] + class_data.duration_slots = sc.start_slot
          THEN (IF sc.style = class_data.style THEN 5 ELSE 0)
             + (IF class_data.level + 1 = sc.level THEN 3 ELSE 0)
          ELSE 0)
    ELSE 0

\* lines 276-299, one scheduled class
ContinuityBonus(slot, class_data, sc) ==
    IF sc.room_id = slot[1] /\ sc.day_idx = slot[2]
    THEN (IF sc.end_slot = slot[3]
          THEN (IF sc.style = class_data.style THEN 5 ELSE 0)
             + (IF sc.level + 1 = class_data.level THEN 3 ELSE 0)
          ELSE 0)
       + (IF slot[3] + class_data.duration_slots = sc.start_slot
          THEN (IF sc.style = class_data.style THEN 5 ELSE 0)
             + (IF class_data.level + 1 = sc.level THEN 3 ELSE 0)
          ELSE 0)
    ELSE 0

RECURSIVE ContinuityScore(_, _, _)
ContinuityScore(slot, class_data, scheduled) ==
    IF Len(scheduled) = 0 THEN 0
    ELSE ContinuityBonus(slot, class_data, Head(scheduled))
       + ContinuityScore(slot, class_data, Tail(scheduled))

score_slot(slot, class_data, cp, scheduled, rms) ==
    PreferenceScore(slot, class_data, cp)
  + RoomBalanceScore(slot, scheduled, rms)
  + DayBalanceScore(slot, scheduled)
  + ContinuityScore(slot, class_data, scheduled)

(***************************************************************************)
(* room_scheduler.py: assign_classes_to_slots, one loop iteration          *)
(***************************************************************************)
\* Python's tuple order on (score, (room_id, day_idx, start_slot))
SlotLess(a, b) ==
    \/ a[1] < b[1]
    \/ a[1] = b[1] /\ a[2] < b[2]
    \/ a[1] = b[1] /\ a[2] = b[2] /\ a[3] < b[3]

ScoredSlotLess(a, b) == a[1] < b[1] \/ (a[1] = b[1] /\ SlotLess(a[2], b[2]))

\* lines 335-347 with a sort on the score alone, which keeps the first
\* candidate of the enumeration among those of the top score
BestSlot_FirstOfTies(scored_slots) ==
    (CHOOSE a \in scored_slots :
        \A b \in scored_slots :
            b = a \/ b[1] < a[1] \/ (b[1] = a[1] /\ SlotLess(a[2], b[2])))[2]

\* lines 335-347: scored_slots.sort(reverse=True); scored_slots[0]
BestSlot(scored_slots) ==
    (CHOOSE a \in scored_slots :
        \A b \in scored_slots : b = a \/ ScoredSlotLess(b, a))[2]

\* data_loader.py slot_index_to_time, as (hours, minutes)
slot_index_to_time(slot_index) == <<slot_index \div 4, (slot_index % 4) * 15>>

\* lines 350-369
ScheduledClass(class_data, slot) ==
    [class_id |-> class_data.class_id,
     style |-> class_data.style,
     level |-> class_data.level,
     age_start |-> class_data.age_start,
     age_end |-> class_data.age_end,
     duration_slots |-> class_data.duration_slots,
     room_id |-> slot[1],
     day_idx |-> slot[2],
     day |-> index_to_day(slot[2]),
     start_slot |-> slot[3],
     start_time |-> slot_index_to_time(slot[3]),
     end_slot |-> slot[3] + class_data.duration_slots,
     end_time |-> slot_index_to_time(slot[3] + class_data.duration_slots),
     teacher_id |-> None]

\* lines 381-410 with the other components of a combined room that names
\* the chosen room marked as well
ConflictingRoomIds_WithSiblings(rms, room_id) ==
    {rms[j].room_id : j \in {k \in 1 .. Len(rms) :
        \E i \in 1 .. Len(rms) :
            /\ rms[i].room_id = room_id
            /\ HasComponents(rms[i])
            /\ rms[k].room_name \in Range(rms[i].component_rooms)}}
    \cup
    {rms[j].room_id : j \in {k \in 1 .. Len(rms) :
        \E c \in 1 .. Len(rms), i \in 1 .. Len(rms) :
            /\ HasComponents(rms[c])
            /\ rms[i].room_name \in Range(rms[c].component_rooms)
            /\ rms[i].room_id = room_id
            /\ \/ k = c
               \/ rms[k].room_name \in Range(rms[c].component_rooms)}}

\* lines 381-394: the rooms named as components of the chosen combined room
\* lines 397-410: the combined rooms that name the chosen room as a component
ConflictingRoomIds(rms, room_id) ==
    {rms[j].room_id : j \in {k \in 1 .. Len(rms) :
        \E i \in 1 .. Len(rms) :
            /\ rms[i].room_id = room_id
            /\ HasComponents(rms[i])
            /\ rms[k].room_name \in Range(rms[i].component_rooms)}}
    \cup
    {rms[j].room_id : j \in {k \in 1 .. Len(rms) :
        /\ HasComponents(rms[k])
        /\ \E i \in 1 .. Len(rms) :
               /\ rms[i].room_name \in Range(rms[k].component_rooms)
               /\ rms[i].room_id = room_id}}

\* lines 373-410 without line 376
UpdateRoomAvailability_SkipsChosenRoom(m, rms, room_id, day_idx, start_slot, duration_slots) ==
    m \ {<<r, day_idx, start_slot + offset>> :
            r \in ConflictingRoomIds(rms, room_id) \ {room_id},
            offset \in 0 .. (duration_slots - 1)}

\* lines 373-410 with the update done for the first slot only
UpdateRoomAvailability_FirstSlotOnly(m, rms, room_id, day_idx, start_slot, duration_slots) ==
    m \ {<<r, day_idx, start_slot>> :
            r \in {room_id} \cup ConflictingRoomIds(rms, room_id)}

\* lines 373-410 with each entry negated instead of set to False
UpdateRoomAvailability_Negates(m, rms, room_id, day_idx, start_slot, duration_slots) ==
    LET marked == {<<r, day_idx, start_slot + offset>> :
                      r \in {room_id} \cup ConflictingRoomIds(rms, room_id),
                      offset \in 0 .. (duration_slots - 1)}
    IN  (m \ marked) \cup (marked \ m)

\* lines 373-410 with True written where the code writes False
UpdateRoomAvailability_MarksTrue(m, rms, room_id, day_idx, start_slot, duration_slots) ==
    m \cup {<<r, day_idx, start_slot + offset>> :
                r \in {room_id} \cup ConflictingRoomIds(rms, room_id),
                offset \in 0 .. (duration_slots - 1)}

\* lines 373-410: the chosen room and its conflicting rooms become False on
\* every slot of the class
UpdateRoomAvailability(m, rms, room_id, day_idx, start_slot, duration_slots) ==
    m \ {<<r, day_idx, start_slot + offset>> :
            r \in {room_id} \cup ConflictingRoomIds(rms, room_id),
            offset \in 0 .. (duration_slots - 1)}

(***************************************************************************)
(* teacher_scheduler.py: score_teacher                                     *)
(*                                                                         *)
(* An age_group string is modelled by the list of its parts between "-":   *)
(* a part that int() accepts is the integer, any other part is a string.   *)
(***************************************************************************)
\* line 139: two parts and both are integers, else ValueError
AgeGroupParses(age_group) ==
    /\ Len(age_group) = 2
    /\ age_group[1] \in Int
    /\ age_group[2] \in Int

\* lines 148-151: age_group == f"{start}-{end}"
AgeGroupIsExactly(age_group, start, end) ==
    /\ Len(age_group) = 2
    /\ age_group[1] \in Int /\ age_group[1] = start
    /\ age_group[2] \in Int /\ age_group[2] = end

\* lines 136-153: 5 for the first age group that matches, 0 if none does
RECURSIVE AgeGroupScore(_, _)
AgeGroupScore(age_groups, sc) ==
    IF Len(age_groups) = 0 THEN 0
    ELSE LET age_group == Head(age_groups)
             matches ==
                 IF AgeGroupParses(age_group)
                 THEN /\ sc.age_start >= age_group[1]
                      /\ sc.age_end <= age_group[2]
                 ELSE AgeGroupIsExactly(age_group, sc.age_start, sc.age_end)
         IN  IF matches THEN 5 ELSE AgeGroupScore(Tail(age_groups), sc)

\* lines 118-121
TeacherPreferenceScore(teacher_id, preferred_teachers) ==
    LET IsTeacher(p) == p.value = teacher_id
    IN  FirstMatchWeight(preferred_teachers, IsTeacher, 10)

\* lines 115-161 without the level match of lines 156-159
score_teacher_NoLevel(teacher_id, sc, preferred_teachers, specs) ==
    TeacherPreferenceScore(teacher_id, preferred_teachers)
  + (IF HasKey(specs, teacher_id)
     THEN LET specializations == specs[teacher_id]
          IN  (IF /\ HasKey(specializations, "style")
                  /\ sc.style \in Range(specializations["style"])
               THEN 8 ELSE 0)
            + (IF HasKey(specializations, "age_group")
               THEN AgeGroupScore(specializations["age_group"], sc) ELSE 0)
     ELSE 0)

\* lines 115-161
score_teacher(teacher_id, sc, preferred_teachers, specs) ==
    TeacherPreferenceScore(teacher_id, preferred_teachers)
  + (IF HasKey(specs, teacher_id)
     THEN LET specializations == specs[teacher_id]
          IN  (IF /\ HasKey(specializations, "style")
                  /\ sc.style \in Range(specializations["style"])
               THEN 8 ELSE 0)
            + (IF HasKey(specializations, "age_group")
               THEN AgeGroupScore(specializations["age_group"], sc) ELSE 0)
            + (IF /\ HasKey(specializations, "level")
                  /\ ToString(sc.level) \in Range(specializations["level"])
               THEN 3 ELSE 0)
     ELSE 0)

(***************************************************************************)
(* teacher_scheduler.py: assign_teachers_to_classes                        *)
(***************************************************************************)
\* line 30 left out: no record moves before another
ChronologicalLess_Never(a, b) == FALSE

\* line 30: list.sort(key=(day_idx, start_slot)) is stable
ChronologicalLess(a, b) ==
    \/ a.day_idx < b.day_idx
    \/ a.day_idx = b.day_idx /\ a.start_slot < b.start_slot

RECURSIVE InsertChronological(_, _)
InsertChronological(sorted, c) ==
    IF Len(sorted) = 0 THEN <<c>>
    ELSE IF ChronologicalLess(c, sorted[Len(sorted)])
         THEN InsertChronological(SubSeq(sorted, 1, Len(sorted) - 1), c)
              \o <<sorted[Len(sorted)]>>
         ELSE sorted \o <<c>>

RECURSIVE SortChronological(_)
SortChronological(seq) ==
    IF Len(seq) = 0 THEN <<>>
    ELSE InsertChronological(
             SortChronological(SubSeq(seq, 1, Len(seq) - 1)), seq[Len(seq)])

\* lines 43-49
PreferredTeachers(cp, class_id) ==
    IF HasKey(cp, class_id) /\ HasKey(cp[class_id], "teacher")
    THEN cp[class_id]["teacher"] ELSE <<>>

\* lines 55-59 with the test of the first slot only
TeacherIsAvailable_FirstSlotOnly(ta, teacher_id, day_idx, start_slot, end_slot) ==
    <<teacher_id, day_idx, start_slot>> \in ta

\* lines 55-59
TeacherIsAvailable(ta, teacher_id, day_idx, start_slot, end_slot) ==
    \A slot \in start_slot .. (end_slot - 1) :
        <<teacher_id, day_idx, slot>> \in ta

\* lines 52-69 with the teachers of a class that has teacher preferences
\* taken from its preferred teachers only
AvailableTeachers_PreferredOnly(sc, ta, cp, specs) ==
    {<<score_teacher(t, sc, PreferredTeachers(cp, sc.class_id), specs), t>> :
        t \in {u \in DOMAIN specs :
                  /\ TeacherIsAvailable(ta, u, sc.day_idx, sc.start_slot,
                                        sc.end_slot)
                  /\ \/ PreferredTeachers(cp, sc.class_id) = <<>>
                     \/ \E i \in 1 .. Len(PreferredTeachers(cp, sc.class_id)) :
                            PreferredTeachers(cp, sc.class_id)[i].value = u}}

\* lines 52-69: the (score, teacher_id) pairs of the available teachers
AvailableTeachers(sc, ta, cp, specs) ==
    {<<score_teacher(t, sc, PreferredTeachers(cp, sc.class_id), specs), t>> :
        t \in {u \in DOMAIN specs :
                  TeacherIsAvailable(ta, u, sc.day_idx, sc.start_slot,
                                     sc.end_slot)}}

\* lines 73-76 with the teachers of the best score taken in ascending
\* teacher_id order
BestTeacher_SmallestIdOnTies(available_teachers) ==
    (CHOOSE a \in available_teachers :
        \A b \in available_teachers :
            \/ b = a
            \/ b[1] < a[1]
            \/ b[1] = a[1] /\ b[2] > a[2])[2]

\* lines 73-76: available_teachers.sort(reverse=True); available_teachers[0]
BestTeacher(available_teachers) ==
    (CHOOSE a \in available_teachers :
        \A b \in available_teachers : b = a \/ ScorePairLess(b, a))[2]

\* lines 82-83 left out
UpdateTeacherAvailability_Unchanged(ta, teacher_id, day_idx, start_slot, end_slot) ==
    ta

\* lines 82-83
UpdateTeacherAvailability(ta, teacher_id, day_idx, start_slot, end_slot) ==
    ta \ {<<teacher_id, day_idx, slot>> : slot \in start_slot .. (end_slot - 1)}

\* line 90 with a test every record passes
HasTeacher_Always(c) == TRUE

\* lines 89-95
HasTeacher(c) == c.teacher_id # None

\* line 92 with a test no record passes
HasNoTeacher_Never(c) == FALSE

HasNoTeacher(c) == c.teacher_id = None

(***************************************************************************)
(* Inputs of a run, as load_data hands them to schedule_classes            *)
(***************************************************************************)
\* A studio with an accordion wall: two physical rooms and the combined one
StudioRooms ==
    << [room_id |-> 1, room_name |-> "R1", is_combined |-> FALSE,
        component_rooms |-> <<>>],
       [room_id |-> 2, room_name |-> "R2", is_combined |-> FALSE,
        component_rooms |-> <<>>],
       [room_id |-> 3, room_name |-> "R1+2", is_combined |-> TRUE,
        component_rooms |-> <<"R1", "R2">>] >>

RoomConfigs == {StudioRooms}

\* data_loader.py lines 104-122: one availability row is a day and a time
\* range, which gives the slots from the start up to the end
OpenRow(id, day_idx, start_slot, end_slot) ==
    {<<id, day_idx, slot>> : slot \in start_slot .. (end_slot - 1)}

\* the openings one room or teacher is drawn from: closed, the whole first
\* day, the first two slots of the first day, every day as a whole
OpenChoices(id) ==
    { {},
      OpenRow(id, 0, 0, NumSlots),
      OpenRow(id, 0, 0, 2),
      UNION {OpenRow(id, d, 0, NumSlots) : d \in Days} }

RoomAvailabilities(rms) ==
    {UNION {f[i] : i \in 1 .. Len(rms)} :
        f \in [1 .. Len(rms) -> UNION {OpenChoices(rms[i].room_id) :
                                          i \in 1 .. Len(rms)}]}

Pref(value, weight) == [value |-> value, weight |-> weight]

\* the preference rows one class is drawn from; NoPreferences is a class
\* with no row at all in the class_preferences sheet
NoPreferences == <<>>

PreferenceProfiles ==
    { NoPreferences,
      ("room" :> <<Pref(3, 1)>>),
      ("room" :> <<Pref(1, 1)>>),
      ("room" :> <<Pref(2, 5), Pref(1, 1)>>),
      ("day" :> <<Pref("Monday", 1)>>) @@ ("time" :> <<Pref(1, 1)>>),
      ("room" :> <<Pref(1, 2)>>) @@ ("day" :> <<Pref("Monday", 1)>>)
          @@ ("time" :> <<Pref(2, 1)>>) @@ ("teacher" :> <<Pref(1, 1)>>) }

ClassIds == {1, 2}

Styles == {"ballet", "jazz"}

Class(class_id, style, level, duration_slots) ==
    [class_id |-> class_id, style |-> style, level |-> level,
     age_start |-> 5 + class_id, age_end |-> 10 + class_id,
     duration_slots |-> duration_slots]

\* the durations of the classes: the shortest and the longest
Durations == {1, MaxDuration}

ClassLists ==
    {<<Class(1, "ballet", 1, d1), Class(2, s2, 2, d2)>> :
        d1 \in Durations, d2 \in Durations, s2 \in Styles}

\* class_preferences has a key only for a class with at least one row
ClassPreferences ==
    {[c \in {k \in ClassIds : f[k] # NoPreferences} |-> f[c]] :
        f \in [ClassIds -> PreferenceProfiles]}

StudioTeachers ==
    (1 :> (("style" :> <<"ballet">>) @@ ("age_group" :> <<<<5, 12>>>>)
           @@ ("level" :> <<"1">>)))
    @@ (2 :> (("style" :> <<"jazz", "ballet">>)))

\* teacher 1 is free on the whole first day, teacher 2 on its first two slots
TeacherAvailabilities ==
    { OpenRow(1, 0, 0, NumSlots) \cup OpenRow(2, 0, 0, 2) }

(***************************************************************************)
(* scheduler.py: schedule_classes                                          *)
(***************************************************************************)
Unstarted ==
    /\ room_time_slots = {}
    /\ sorted_classes = <<>>
    /\ idx = 0
    /\ scheduled_classes = <<>>
    /\ unscheduled_classes = <<>>
    /\ teacher_avail = {}
    /\ assigned_classes = <<>>
    /\ unassigned_classes = <<>>
    /\ stats = None

\* check_overlaps.py is a script of its own and has not been run
Unaudited ==
    /\ df = <<>>
    /\ overlaps = <<>>
    /\ row_i = 0
    /\ row_j = 0

\* scheduler.py line 28 has returned: every sheet is read
Working ==
    /\ classes_df = <<>>
    /\ room_availability_df = <<>>
    /\ pc = "seed"
    /\ Unstarted
    /\ Unaudited

Init ==
    /\ rooms \in RoomConfigs
    /\ classes \in ClassLists
    /\ room_availability \in RoomAvailabilities(rooms)
    /\ class_preferences \in ClassPreferences
    /\ teacher_availability \in TeacherAvailabilities
    /\ teacher_specializations = StudioTeachers
    /\ Working

\* room_scheduler.py line 23 and teacher_scheduler.py line 33 without
\* .copy(): the working name denotes the dict of the caller
AfterWritesToCopy_SameDict(original, working) == working

\* room_scheduler.py line 23, teacher_scheduler.py line 33: dict.copy()
\* gives the working dict entries of its own (the values are bools), so
\* the dict of the caller reads as before whatever is written to the copy
AfterWritesToCopy(original, working) == original

\* room_scheduler.py line 318
Seed ==
    /\ pc = "seed"
    /\ room_time_slots' =
           create_room_availability_matrix(rooms, room_availability)
    /\ room_availability' =
           AfterWritesToCopy(room_availability, room_time_slots')
    /\ pc' = "sort"
    /\ UNCHANGED <<other_inputs, teacher_availability, audit, sorted_classes, idx, scheduled_classes,
                   unscheduled_classes, teacher_avail, assigned_classes,
                   unassigned_classes, stats>>

\* room_scheduler.py lines 321-325
SortClasses ==
    /\ pc = "sort"
    /\ sorted_classes' = sort_classes_by_difficulty(classes, class_preferences)
    /\ idx' = 0
    /\ pc' = "place"
    /\ UNCHANGED <<inputs, audit, room_time_slots, scheduled_classes,
                   unscheduled_classes, teacher_avail, assigned_classes,
                   unassigned_classes, stats>>

\* d.copy() followed by d["reason"] = reason (room_scheduler.py lines
\* 413-414, teacher_scheduler.py lines 91-92)
WithReason(d, reason) ==
    [f \in DOMAIN d \cup {"reason"} |-> IF f = "reason" THEN reason ELSE d[f]]

\* lines 335-340 with the slots left out on which no teacher of the
\* teacher availability is free for the whole class
ScoredSlots_WithFreeTeacherOnly(class_data, m, rms, cp, scheduled) ==
    {<<score_slot(slot, class_data, cp, scheduled, rms), slot>> :
        slot \in {s \in find_compatible_slots(class_data, m, rms, cp) :
                     \E key \in teacher_availability :
                         \A offset \in 0 .. (class_data.duration_slots - 1) :
                             <<key[1], s[2], s[3] + offset>>
                                 \in teacher_availability}}

\* the (score, slot) pairs of lines 335-340
ScoredSlots(class_data, m, rms, cp, scheduled) ==
    {<<score_slot(slot, class_data, cp, scheduled, rms), slot>> :
        slot \in find_compatible_slots(class_data, m, rms, cp)}

\* room_scheduler.py lines 327-410, an iteration that finds a slot
PlaceClass ==
    /\ pc = "place"
    /\ idx < Len(sorted_classes)
    /\ LET class_data == sorted_classes[idx + 1]
           scored_slots == ScoredSlots(class_data, room_time_slots, rooms,
                                       class_preferences, scheduled_classes)
       IN  /\ scored_slots # {}
           /\ LET best_slot == BestSlot(scored_slots)
              IN  /\ scheduled_classes' =
                         Append(scheduled_classes,
                                ScheduledClass(class_data, best_slot))
                  /\ room_time_slots' =
                         UpdateRoomAvailability(room_time_slots, rooms,
                             best_slot[1], best_slot[2], best_slot[3],
                             class_data.duration_slots)
    /\ room_availability' =
           AfterWritesToCopy(room_availability, room_time_slots')
    /\ idx' = idx + 1
    /\ UNCHANGED <<other_inputs, teacher_availability, audit, pc,
                   sorted_classes, unscheduled_classes,
                   teacher_avail, assigned_classes, unassigned_classes, stats>>

\* room_scheduler.py lines 327-331 and 411-415, an iteration that finds none
RecordUnscheduled ==
    /\ pc = "place"
    /\ idx < Len(sorted_classes)
    /\ LET class_data == sorted_classes[idx + 1]
       IN  /\ find_compatible_slots(class_data, room_time_slots, rooms,
                                    class_preferences) = {}
           /\ unscheduled_classes' =
                  Append(unscheduled_classes,
                         WithReason(class_data,
                                    "No compatible room-time slot found"))
    /\ idx' = idx + 1
    /\ UNCHANGED <<inputs, audit, pc, room_time_slots, sorted_classes,
                   scheduled_classes, teacher_avail, assigned_classes,
                   unassigned_classes, stats>>

\* room_scheduler.py lines 327-415 as a function of its arguments: the
\* loop from element i of the sorted list on, started with matrix m and the
\* lists scheduled and unscheduled
RECURSIVE PlacementLoop(_, _, _, _, _, _, _)
PlacementLoop(sorted, i, m, scheduled, unscheduled, rms, cp) ==
    IF i > Len(sorted)
    THEN [scheduled_classes |-> scheduled,
          unscheduled_classes |-> unscheduled,
          room_time_slots |-> m]
    ELSE LET class_data == sorted[i]
             compatible_slots == find_compatible_slots(class_data, m, rms, cp)
             scored_slots ==
                 {<<score_slot(slot, class_data, cp, scheduled, rms), slot>> :
                     slot \in compatible_slots}
         IN  IF compatible_slots # {}
             THEN LET best_slot == BestSlot(scored_slots)
                  IN  PlacementLoop(sorted, i + 1,
                          UpdateRoomAvailability(m, rms, best_slot[1],
                              best_slot[2], best_slot[3],
                              class_data.duration_slots),
                          Append(scheduled,
                                 ScheduledClass(class_data, best_slot)),
                          unscheduled, rms, cp)
             ELSE PlacementLoop(sorted, i + 1, m, scheduled,
                      Append(unscheduled,
                             WithReason(class_data,
                                 "No compatible room-time slot found")),
                      rms, cp)

\* room_scheduler.py lines 304-417: the result of phase 1 for its four
\* arguments
assign_classes_to_slots(cls, rms, avail, cp) ==
    PlacementLoop(sort_classes_by_difficulty(cls, cp), 1,
                  create_room_availability_matrix(rms, avail),
                  <<>>, <<>>, rms, cp)

\* teacher_scheduler.py lines 30-33, entered when the placement loop is over
SortChronologically ==
    /\ pc = "place"
    /\ idx = Len(sorted_classes)
    /\ scheduled_classes' = SortChronological(scheduled_classes)
    /\ teacher_avail' = teacher_availability
    /\ idx' = 0
    /\ pc' = "assign"
    /\ UNCHANGED <<inputs, audit, room_time_slots, sorted_classes,
                   unscheduled_classes, assigned_classes, unassigned_classes,
                   stats>>

\* teacher_scheduler.py lines 36-83, an iteration that finds a teacher
AssignTeacher ==
    /\ pc = "assign"
    /\ idx < Len(scheduled_classes)
    /\ LET scheduled_class == scheduled_classes[idx + 1]
           available_teachers ==
               AvailableTeachers(scheduled_class, teacher_avail,
                                 class_preferences, teacher_specializations)
       IN  /\ available_teachers # {}
           /\ LET best_teacher == BestTeacher(available_teachers)
              IN  /\ scheduled_classes' =
                         [scheduled_classes EXCEPT
                             ![idx + 1].teacher_id = best_teacher]
                  /\ teacher_avail' =
                         UpdateTeacherAvailability(teacher_avail, best_teacher,
                             scheduled_class.day_idx,
                             scheduled_class.start_slot,
                             scheduled_class.end_slot)
    /\ teacher_availability' =
           AfterWritesToCopy(teacher_availability, teacher_avail')
    /\ idx' = idx + 1
    /\ UNCHANGED <<other_inputs, room_availability, audit, pc,
                   room_time_slots, sorted_classes,
                   unscheduled_classes, assigned_classes, unassigned_classes,
                   stats>>

\* teacher_scheduler.py lines 36-71, an iteration that finds no teacher
LeaveUnassigned ==
    /\ pc = "assign"
    /\ idx < Len(scheduled_classes)
    /\ AvailableTeachers(scheduled_classes[idx + 1], teacher_avail,
                         class_preferences, teacher_specializations) = {}
    /\ idx' = idx + 1
    /\ UNCHANGED <<inputs, audit, pc, room_time_slots, sorted_classes,
                   scheduled_classes, unscheduled_classes, teacher_avail,
                   assigned_classes, unassigned_classes, stats>>

\* teacher_scheduler.py lines 86-97
SplitAssigned ==
    /\ pc = "assign"
    /\ idx = Len(scheduled_classes)
    /\ assigned_classes' = SelectSeq(scheduled_classes, HasTeacher)
    /\ unassigned_classes' =
           [i \in 1 .. Len(SelectSeq(scheduled_classes, HasNoTeacher)) |->
               WithReason(SelectSeq(scheduled_classes, HasNoTeacher)[i],
                          "No available teacher found")]
    /\ pc' = "stats"
    /\ UNCHANGED <<inputs, audit, room_time_slots, sorted_classes, idx,
                   scheduled_classes, unscheduled_classes, teacher_avail,
                   stats>>

\* scheduler.py lines 84-97, as the fraction (numerator, denominator)
calc_scheduling_rate(scheduled, all_classes) ==
    IF Len(all_classes) = 0 THEN <<0, 1>>
    ELSE <<Len(scheduled), Len(all_classes)>>

\* scheduler.py lines 47 and 59-68
ComputeStats ==
    /\ pc = "stats"
    /\ stats' =
           [total_classes |-> Len(classes),
            scheduled_classes |-> Len(assigned_classes),
            unscheduled_classes |->
                Len(unscheduled_classes \o unassigned_classes),
            scheduling_rate |->
                calc_scheduling_rate(assigned_classes, classes),
            unscheduled_by_room |-> Len(unscheduled_classes),
            unscheduled_by_teacher |-> Len(unassigned_classes)]
    /\ pc' = "done"
    /\ UNCHANGED <<inputs, audit, room_time_slots, sorted_classes, idx,
                   scheduled_classes, unscheduled_classes, teacher_avail,
                   assigned_classes, unassigned_classes>>

Next ==
    \/ Seed
    \/ SortClasses
    \/ PlaceClass
    \/ RecordUnscheduled
    \/ SortChronologically
    \/ AssignTeacher
    \/ LeaveUnassigned
    \/ SplitAssigned
    \/ ComputeStats

Spec == Init /\ [][Next]_vars

(***************************************************************************)
(* Runs on a small family of inputs: a class may prefer two start slots    *)
(* with different weights, and the rooms may be closed                     *)
(***************************************************************************)
\* room 1 open on the first two slots of the first day, both physical rooms
\* open on the whole first day, every room closed
SmallRoomAvailabilities ==
    { OpenRow(1, 0, 0, 2),
      OpenRow(1, 0, 0, NumSlots) \cup OpenRow(2, 0, 0, NumSlots),
      {} }

SmallPreferenceProfiles ==
    { NoPreferences,
      ("room" :> <<Pref(3, 1)>>),
      ("room" :> <<Pref(1, 1)>>),
      ("time" :> <<Pref(1, 1), Pref(2, 3)>>) }

SmallClassPreferences ==
    {[c \in {k \in ClassIds : f[k] # NoPreferences} |-> f[c]] :
        f \in [ClassIds -> SmallPreferenceProfiles]}

InitSmall ==
    /\ rooms = StudioRooms
    /\ classes \in ClassLists
    /\ room_availability \in SmallRoomAvailabilities
    /\ class_preferences \in SmallClassPreferences
    /\ teacher_availability \in TeacherAvailabilities
    /\ teacher_specializations = StudioTeachers
    /\ Working

SpecSmall == InitSmall /\ [][Next]_vars

\* the runs whose termination is checked
FairPreferenceProfiles ==
    { NoPreferences,
      ("room" :> <<Pref(3, 1)>>),
      ("room" :> <<Pref(1, 1)>>) }

FairClassPreferences ==
    {[c \in {k \in ClassIds : f[k] # NoPreferences} |-> f[c]] :
        f \in [ClassIds -> FairPreferenceProfiles]}

FairClassLists ==
    {<<Class(1, "ballet", 1, 1), Class(2, "jazz", 2, d2)>> : d2 \in Durations}

InitFair ==
    /\ rooms = StudioRooms
    /\ classes \in FairClassLists
    /\ room_availability \in SmallRoomAvailabilities
    /\ class_preferences \in FairClassPreferences
    /\ teacher_availability \in TeacherAvailabilities
    /\ teacher_specializations = StudioTeachers
    /\ Working

\* schedule_classes is straight-line code and loops over finite lists: a
\* step that can be taken is taken
FairSpec == InitFair /\ [][Next]_vars /\ WF_vars(Next)

(***************************************************************************)
(* Runs on a studio with two accordion walls: three physical rooms in a    *)
(* row, the middle one a component of two combined rooms                   *)
(***************************************************************************)
TwoWallRooms ==
    << [room_id |-> 1, room_name |-> "R1", is_combined |-> FALSE,
        component_rooms |-> <<>>],
       [room_id |-> 2, room_name |-> "R2", is_combined |-> FALSE,
        component_rooms |-> <<>>],
       [room_id |-> 3, room_name |-> "R3", is_combined |-> FALSE,
        component_rooms |-> <<>>],
       [room_id |-> 4, room_name |-> "R1+2", is_combined |-> TRUE,
        component_rooms |-> <<"R1", "R2">>],
       [room_id |-> 5, room_name |-> "R2+3", is_combined |-> TRUE,
        component_rooms |-> <<"R2", "R3">>] >>

\* both combined rooms open on the whole first day, every room open on its
\* first two slots, room 1 open on its first two slots, every room closed
TwoWallRoomAvailabilities ==
    { OpenRow(4, 0, 0, NumSlots) \cup OpenRow(5, 0, 0, NumSlots),
      UNION {OpenRow(r, 0, 0, 2) : r \in 1 .. 5},
      OpenRow(1, 0, 0, 2),
      {} }

TwoWallPreferenceProfiles ==
    { NoPreferences,
      ("room" :> <<Pref(4, 1)>>),
      ("room" :> <<Pref(5, 1)>>) }

TwoWallClassPreferences ==
    {[c \in {k \in ClassIds : f[k] # NoPreferences} |-> f[c]] :
        f \in [ClassIds -> TwoWallPreferenceProfiles]}

InitTwoWalls ==
    /\ rooms = TwoWallRooms
    /\ classes \in ClassLists
    /\ room_availability \in TwoWallRoomAvailabilities
    /\ class_preferences \in TwoWallClassPreferences
    /\ teacher_availability \in TeacherAvailabilities
    /\ teacher_specializations = StudioTeachers
    /\ Working

SpecTwoWalls == InitTwoWalls /\ [][Next]_vars

(***************************************************************************)
(* Runs on studios with three teachers, one of whom may have rows in the   *)
(* teacher availability sheet and none in the specialization sheet         *)
(***************************************************************************)
\* data_loader.py lines 152-171: teacher_specializations has a key for the
\* teachers of the specialization sheet only
\* teacher 3 has no row, or the rows of teacher 2, or rows of its own with
\* an age group that is no range and two that are
TeacherConfigs ==
    { StudioTeachers,
      StudioTeachers @@ (3 :> (("style" :> <<"jazz", "ballet">>))),
      StudioTeachers
          @@ (3 :> (("style" :> <<"jazz">>)
                    @@ ("age_group" :> << <<"adults">>, <<5, 12>>, <<6, 14>> >>)
                    @@ ("level" :> <<"2">>))) }

TeacherOpenChoices(id) ==
    {{}, OpenRow(id, 0, 0, NumSlots), OpenRow(id, 0, 0, 2)}

ThreeTeacherAvailabilities ==
    {a1 \cup a2 \cup a3 : a1 \in TeacherOpenChoices(1),
                          a2 \in TeacherOpenChoices(2),
                          a3 \in TeacherOpenChoices(3)}

TeacherPreferenceProfiles ==
    { NoPreferences,
      ("teacher" :> <<Pref(1, 1)>>),
      ("teacher" :> <<Pref(3, 1), Pref(3, 2)>>) }

TeacherClassPreferences ==
    {[c \in {k \in ClassIds : f[k] # NoPreferences} |-> f[c]] :
        f \in [ClassIds -> TeacherPreferenceProfiles]}

TeacherClassLists ==
    {<<Class(1, "ballet", 1, 1), Class(2, s2, 2, d2)>> :
        d2 \in 1 .. MaxDuration, s2 \in Styles}

\* both physical rooms open on the first day, or room 1 on two slots only
TeacherRoomAvailabilities ==
    { OpenRow(1, 0, 0, NumSlots) \cup OpenRow(2, 0, 0, NumSlots),
      OpenRow(1, 0, 0, 2) }

InitTeachers ==
    /\ rooms = StudioRooms
    /\ classes \in TeacherClassLists
    /\ room_availability \in TeacherRoomAvailabilities
    /\ class_preferences \in TeacherClassPreferences
    /\ teacher_availability \in ThreeTeacherAvailabilities
    /\ teacher_specializations \in TeacherConfigs
    /\ Working

SpecTeachers == InitTeachers /\ [][Next]_vars

(***************************************************************************)
(* data_loader.py: load_data, the room configuration and room availability *)
(* sheets, followed by the run of schedule_classes on what was loaded      *)
(***************************************************************************)
MaxRows == 2

\* a time of day (the datetime of parse_time_value) as minutes since 00:00
time_to_slot_index(time) == (time \div 60) * 4 + (time % 60) \div 15

\* lines 104-122: the keys one row of the sheet sets to True
RowKeys(row) ==
    LET day_idx == day_to_index(row.day)
    IN  IF row.start_time < row.end_time
        THEN {<<row.room_id, day_idx,
                time_to_slot_index(row.start_time + 15 * k)>> :
                 k \in 0 .. ((row.end_time - row.start_time - 1) \div 15)}
        ELSE {}

\* the "day" cells of the sheet: two day names and an abbreviation
SheetDays == {"Monday", "Tuesday", "Mon"}

SheetRows ==
    {[room_id |-> r, day |-> d, start_time |-> 0, end_time |-> e] :
        r \in 1 .. 3, d \in SheetDays, e \in {30, NumSlots * 15}}

RECURSIVE SeqsUpTo(_, _)
SeqsUpTo(S, n) ==
    IF n = 0 THEN {<<>>}
    ELSE SeqsUpTo(S, n - 1)
         \cup {Append(s, x) : s \in SeqsUpTo(S, n - 1), x \in S}

\* lines 84-97 on a sheet whose component_rooms cell of the combined room
\* reads "R1, R2": split(",") keeps the blank in front of the second name
StudioRoomsBlank ==
    << [room_id |-> 1, room_name |-> "R1", is_combined |-> FALSE,
        component_rooms |-> <<>>],
       [room_id |-> 2, room_name |-> "R2", is_combined |-> FALSE,
        component_rooms |-> <<>>],
       [room_id |-> 3, room_name |-> "R1+2", is_combined |-> TRUE,
        component_rooms |-> <<"R1", " R2">>] >>

LoadedRoomConfigs == {StudioRooms, StudioRoomsBlank}

LoadedClassLists ==
    {<<Class(1, "ballet", 1, 1), Class(2, "jazz", 2, d2)>> :
        d2 \in 1 .. MaxDuration}

\* load_data after line 97: the rooms are read, the availability is empty
InitLoad ==
    /\ classes_df = <<>>
    /\ room_availability_df \in SeqsUpTo(SheetRows, MaxRows)
    /\ rooms \in LoadedRoomConfigs
    /\ classes \in LoadedClassLists
    /\ room_availability = {}
    /\ class_preferences = <<>>
    /\ teacher_availability \in TeacherAvailabilities
    /\ teacher_specializations = StudioTeachers
    /\ pc = "load"
    /\ Unstarted
    /\ Unaudited

\* data_loader.py lines 104-122, one row of the sheet
LoadRoomAvailabilityRow ==
    /\ pc = "load"
    /\ room_availability_df # <<>>
    /\ room_availability' =
           room_availability \cup RowKeys(Head(room_availability_df))
    /\ room_availability_df' = Tail(room_availability_df)
    /\ UNCHANGED <<audit, classes_df, rooms, classes, class_preferences,
                   teacher_availability,
                   teacher_specializations, pc, room_time_slots,
                   sorted_classes, idx, scheduled_classes,
                   unscheduled_classes, teacher_avail, assigned_classes,
                   unassigned_classes, stats>>

\* the sheet is read; scheduler.py lines 28-36 hand the data to phase 1
FinishLoad ==
    /\ pc = "load"
    /\ room_availability_df = <<>>
    /\ pc' = "seed"
    /\ UNCHANGED <<inputs, audit, room_time_slots, sorted_classes, idx,
                   scheduled_classes, unscheduled_classes, teacher_avail,
                   assigned_classes, unassigned_classes, stats>>

NextLoad ==
    \/ LoadRoomAvailabilityRow
    \/ FinishLoad
    \/ Next

SpecLoad == InitLoad /\ [][NextLoad]_vars

(***************************************************************************)
(* data_loader.py: load_data, the classes sheet, followed by the run of    *)
(* schedule_classes on the classes it gives.  The "duration" cell is in    *)
(* hours; it is modelled by the number of twentieths of an hour (0.05 h),  *)
(* so that 1.5 hours is 30.                                                *)
(***************************************************************************)
\* line 80: int(row["duration"] * 4); int() drops the fraction of a
\* positive float
DurationToSlots(duration) == (duration * 4) \div 20

\* the durations of the sheet: every multiple of 0.05 h up to the longest
\* class
SheetDurations == 1 .. (5 * MaxDuration)

ClassSheets ==
    {<<[class_id |-> 1, style |-> "ballet", level |-> 1, duration |-> h1],
       [class_id |-> 2, style |-> "jazz", level |-> 2, duration |-> h2]>> :
        h1 \in SheetDurations, h2 \in SheetDurations}

\* load_data at line 68: the sheets are read into frames, no class is built
InitClasses ==
    /\ classes_df \in ClassSheets
    /\ room_availability_df = <<>>
    /\ rooms = StudioRooms
    /\ classes = <<>>
    /\ room_availability \in SmallRoomAvailabilities
    /\ class_preferences = <<>>
    /\ teacher_availability \in TeacherAvailabilities
    /\ teacher_specializations = StudioTeachers
    /\ pc = "load_classes"
    /\ Unstarted
    /\ Unaudited

\* data_loader.py lines 69-82, the loop over the rows of the frame
LoadClasses ==
    /\ pc = "load_classes"
    /\ classes' =
           [i \in 1 .. Len(classes_df) |->
               Class(classes_df[i].class_id, classes_df[i].style,
                     classes_df[i].level,
                     DurationToSlots(classes_df[i].duration))]
    /\ pc' = "seed"
    /\ UNCHANGED <<audit, classes_df, room_availability_df, rooms,
                   room_availability, class_preferences, teacher_availability,
                   teacher_specializations, room_time_slots, sorted_classes,
                   idx, scheduled_classes, unscheduled_classes, teacher_avail,
                   assigned_classes, unassigned_classes, stats>>

NextClasses ==
    \/ LoadClasses
    \/ Next

SpecClasses == InitClasses /\ [][NextClasses]_vars

(***************************************************************************)
(* check_overlaps.py: the overlap auditor, run on a "Schedule" sheet       *)
(***************************************************************************)
MaxScheduleRows == 2

\* Python's order on datetime.time values, a time being (hours, minutes)
TimeLess(a, b) == a[1] < b[1] \/ (a[1] = b[1] /\ a[2] < b[2])

\* output.py lines 82-86: a row has the name of the room, the name of the
\* day and the start and end times of the class
ScheduleRows ==
    {[Room |-> StudioRooms[r].room_name, Day |-> index_to_day(d),
      Start |-> slot_index_to_time(s), End |-> slot_index_to_time(s + n)] :
        r \in 1 .. Len(StudioRooms), d \in Days, s \in 0 .. 1,
        n \in 1 .. MaxDuration}

\* check_overlaps.py lines 13-20: the sheet is read, no pair is examined
InitAudit ==
    /\ df \in SeqsUpTo(ScheduleRows, MaxScheduleRows)
    /\ overlaps = <<>>
    /\ row_i = 0
    /\ row_j = 1
    /\ pc = "audit"
    /\ classes_df = <<>>
    /\ room_availability_df = <<>>
    /\ rooms = StudioRooms
    /\ classes = <<>>
    /\ room_availability = {}
    /\ class_preferences = <<>>
    /\ teacher_availability = {}
    /\ teacher_specializations = <<>>
    /\ Unstarted

\* lines 24-33: the test of one pair of rows
RowsOverlap(a, b) ==
    /\ a.Room = b.Room
    /\ a.Day = b.Day
    /\ TimeLess(a.Start, b.End)
    /\ TimeLess(b.Start, a.End)

\* lines 22-33, one iteration of the inner loop (indices from 0 as in df.iloc)
AuditPair ==
    /\ pc = "audit"
    /\ row_i < Len(df)
    /\ row_j < Len(df)
    /\ overlaps' = IF RowsOverlap(df[row_i + 1], df[row_j + 1])
                   THEN Append(overlaps, <<row_i, row_j>>)
                   ELSE overlaps
    /\ row_j' = row_j + 1
    /\ UNCHANGED <<inputs, df, row_i, pc, room_time_slots, sorted_classes,
                   idx, scheduled_classes, unscheduled_classes, teacher_avail,
                   assigned_classes, unassigned_classes, stats>>

\* lines 21-22: the inner loop is over, the outer loop takes the next row
AuditNextRow ==
    /\ pc = "audit"
    /\ row_i < Len(df)
    /\ row_j >= Len(df)
    /\ row_i' = row_i + 1
    /\ row_j' = row_i + 2
    /\ UNCHANGED <<inputs, df, overlaps, pc, room_time_slots, sorted_classes,
                   idx, scheduled_classes, unscheduled_classes, teacher_avail,
                   assigned_classes, unassigned_classes, stats>>

\* line 35: both loops are over
AuditReport ==
    /\ pc = "audit"
    /\ row_i >= Len(df)
    /\ pc' = "audited"
    /\ UNCHANGED <<inputs, audit, room_time_slots, sorted_classes, idx,
                   scheduled_classes, unscheduled_classes, teacher_avail,
                   assigned_classes, unassigned_classes, stats>>

NextAudit ==
    \/ AuditPair
    \/ AuditNextRow
    \/ AuditReport

SpecAudit == InitAudit /\ [][NextAudit]_vars

(***************************************************************************)
(* Vocabulary of the properties                                            *)
(***************************************************************************)
RoomIds == {rooms[i].room_id : i \in 1 .. Len(rooms)}

\* slots a placement can reach: a class may start at any slot of the day
ReachableSlots == 0 .. (NumSlots + MaxDuration)

Placements == Range(scheduled_classes)

\* the placement covers the slot in [start_slot, end_slot) of its room and day
Occupies(c, room_id, day_idx, slot) ==
    /\ c.room_id = room_id
    /\ c.day_idx = day_idx
    /\ c.start_slot <= slot
    /\ slot < c.end_slot

Occupied(room_id, day_idx, slot) ==
    \E i \in 1 .. Len(scheduled_classes) :
        Occupies(scheduled_classes[i], room_id, day_idx, slot)

IntervalsOverlap(a, b) == a.start_slot < b.end_slot /\ b.start_slot < a.end_slot

RoomWithId(room_id) == CHOOSE r \in Range(rooms) : r.room_id = room_id

\* the combined room lists the name of the other room as a component
ListsAsComponent(combined_id, component_id) ==
    \E x \in Range(rooms), y \in Range(rooms) :
        /\ x.room_id = combined_id /\ x.is_combined
        /\ y.room_id = component_id
        /\ y.room_name \in Range(x.component_rooms)

AccordionPartners(a, b) == ListsAsComponent(a, b) \/ ListsAsComponent(b, a)

CombinedRoomIdsOfStudio == {r.room_id : r \in {x \in Range(rooms) : x.is_combined}}

\* a combined room together with all of its component rooms
AccordionGroup(combined_id) ==
    {combined_id} \cup {r \in RoomIds : ListsAsComponent(combined_id, r)}

\* the matrix as it is right after seeding
SeededMatrix == create_room_availability_matrix(rooms, room_availability)

(***************************************************************************)
(* C1: for every (room_id, day_idx, slot_idx) at most one placement has    *)
(* that room and day and covers that slot.                                 *)
(***************************************************************************)
C1_NoRoomDoubleBooking ==
    \A r \in RoomIds, d \in Days, s \in ReachableSlots :
        Cardinality({i \in 1 .. Len(scheduled_classes) :
                        Occupies(scheduled_classes[i], r, d, s)}) <= 1

\* two classes are placed in the same room on the same day
C1_Witness ==
    \E i, j \in 1 .. Len(scheduled_classes) :
        /\ i # j
        /\ scheduled_classes[i].room_id = scheduled_classes[j].room_id
        /\ scheduled_classes[i].day_idx = scheduled_classes[j].day_idx

(***************************************************************************)
(* C2: no two placements on the same day with overlapping slot intervals   *)
(* are one in a combined room and the other in a room that the combined    *)
(* room lists as a component.                                              *)
(***************************************************************************)
C2_NoCombinedComponentOverlap ==
    \A i, j \in 1 .. Len(scheduled_classes) :
        LET a == scheduled_classes[i]
            b == scheduled_classes[j]
        IN  (/\ a.day_idx = b.day_idx
             /\ IntervalsOverlap(a, b))
            => ~ListsAsComponent(a.room_id, b.room_id)

\* a combined room and one of its components are both in use on one day
C2_Witness ==
    \E i, j \in 1 .. Len(scheduled_classes) :
        /\ scheduled_classes[i].day_idx = scheduled_classes[j].day_idx
        /\ ListsAsComponent(scheduled_classes[i].room_id,
                            scheduled_classes[j].room_id)

(***************************************************************************)
(* C3 as stated: at every (day, slot) at most one room of an accordion     *)
(* group (a combined room and all its components) is occupied, sibling     *)
(* component rooms included.                                               *)
(***************************************************************************)
C3_GroupExclusive ==
    \A g \in CombinedRoomIdsOfStudio, d \in Days, s \in ReachableSlots :
        Cardinality({r \in AccordionGroup(g) : Occupied(r, d, s)}) <= 1

(***************************************************************************)
(* C3 amended: at every (day, slot) a combined room and a component room   *)
(* of it are never both occupied; two sibling component rooms may be.      *)
(***************************************************************************)
C3_CombinedExcludesComponents ==
    \A g \in CombinedRoomIdsOfStudio, d \in Days, s \in ReachableSlots :
        Occupied(g, d, s)
            => \A r \in AccordionGroup(g) \ {g} : ~Occupied(r, d, s)

\* two sibling component rooms are occupied at the same (day, slot)
C3_Witness ==
    \E g \in CombinedRoomIdsOfStudio, d \in Days, s \in Slots :
        \E r1, r2 \in AccordionGroup(g) \ {g} :
            r1 # r2 /\ Occupied(r1, d, s) /\ Occupied(r2, d, s)

(***************************************************************************)
(* C4: for every (teacher_id, day, slot) at most one class has that        *)
(* teacher_id and covers that slot.                                        *)
(***************************************************************************)
C4_TeacherSingleBooking ==
    \A t \in DOMAIN teacher_specializations, d \in Days,
       s \in ReachableSlots :
        Cardinality({i \in 1 .. Len(scheduled_classes) :
                        /\ scheduled_classes[i].teacher_id = t
                        /\ scheduled_classes[i].day_idx = d
                        /\ scheduled_classes[i].start_slot <= s
                        /\ s < scheduled_classes[i].end_slot}) <= 1

\* the run is over and one teacher has two classes on one day
C4_Witness ==
    /\ pc = "done"
    /\ \E i, j \in 1 .. Len(assigned_classes) :
           /\ i # j
           /\ assigned_classes[i].teacher_id = assigned_classes[j].teacher_id
           /\ assigned_classes[i].day_idx = assigned_classes[j].day_idx

(***************************************************************************)
(* C5: every slot a placed class occupies in its room and day is marked    *)
(* available for that room in the input room_availability.                 *)
(***************************************************************************)
C5_AvailabilityRespected ==
    \A c \in Placements :
        \A s \in c.start_slot .. (c.end_slot - 1) :
            <<c.room_id, c.day_idx, s>> \in room_availability

\* a class of more than one slot is placed in a room that is not open on
\* every slot of that day
C5_Witness ==
    \E c \in Placements :
        /\ c.duration_slots > 1
        /\ \E s \in Slots : <<c.room_id, c.day_idx, s>> \notin room_availability

(***************************************************************************)
(* C6 as stated: at every (day, slot), if a room of an accordion group (a  *)
(* combined room and its components) has been taken by a placement, then   *)
(* every room of that group is unavailable in the matrix.                  *)
(***************************************************************************)
C6_WholeGroupUnavailable ==
    \A g \in CombinedRoomIdsOfStudio, d \in Days, s \in Slots :
        (\E r \in AccordionGroup(g) : Occupied(r, d, s))
            => \A r \in AccordionGroup(g) : <<r, d, s>> \notin room_time_slots

(***************************************************************************)
(* C6 amended: at every (day, slot), if a room has been taken by a         *)
(* placement, then that room and every accordion partner of it (the        *)
(* components of a combined room, the combined rooms that list a           *)
(* component) are unavailable in the matrix; a sibling component may       *)
(* remain available.                                                       *)
(***************************************************************************)
C6_PartnersUnavailable ==
    \A r \in RoomIds, d \in Days, s \in ReachableSlots :
        Occupied(r, d, s)
            => \A p \in RoomIds :
                   (p = r \/ AccordionPartners(p, r))
                       => <<p, d, s>> \notin room_time_slots

\* a component room is taken while its sibling is still available there
C6_Witness ==
    \E g \in CombinedRoomIdsOfStudio, d \in Days, s \in Slots :
        \E r1, r2 \in AccordionGroup(g) \ {g} :
            /\ r1 # r2
            /\ Occupied(r1, d, s)
            /\ <<r2, d, s>> \in room_time_slots
            /\ <<g, d, s>> \notin room_time_slots

(***************************************************************************)
(* C7 as stated: the seeded matrix marks (room, day, slot) available       *)
(* exactly when the input marks that room open at that day and slot, for   *)
(* every room including the component rooms of a combined room.            *)
(***************************************************************************)
C7_SeedingKeepsInput ==
    pc = "sort" => room_time_slots = room_availability

(***************************************************************************)
(* C8 as stated: when a combined room and both of its components are open  *)
(* over the same interval of two class-lengths on one day, a class whose   *)
(* only room preference is the combined room and a class whose only room   *)
(* preference is one component are both placed, one at the first slot of   *)
(* the interval and the other one class-length later.                      *)
(***************************************************************************)
OnlyPrefersRoom(class_id, room_id) ==
    /\ HasKey(class_preferences, class_id)
    /\ DOMAIN class_preferences[class_id] = {"room"}
    /\ Len(class_preferences[class_id]["room"]) = 1
    /\ class_preferences[class_id]["room"][1].value = room_id

S2Scenario(g, a, b, lo, len) ==
    /\ room_availability =
           UNION {OpenRow(r, 0, lo, lo + 2 * len) : r \in AccordionGroup(g)}
    /\ Cardinality(AccordionGroup(g)) = 3
    /\ a.class_id # b.class_id
    /\ a.duration_slots = len /\ b.duration_slots = len
    /\ OnlyPrefersRoom(a.class_id, g)
    /\ \E r \in AccordionGroup(g) \ {g} : OnlyPrefersRoom(b.class_id, r)

C8_BothPlaced ==
    \A g \in CombinedRoomIdsOfStudio, a \in Range(classes),
       b \in Range(classes), lo \in Slots, len \in 1 .. MaxDuration :
        (pc = "done" /\ S2Scenario(g, a, b, lo, len))
            => \E pa \in Placements, pb \in Placements :
                   /\ pa.class_id = a.class_id
                   /\ pb.class_id = b.class_id
                   /\ {pa.start_slot, pb.start_slot} = {lo, lo + len}

(***************************************************************************)
(* C9: for every placed class, if it has a room preference its room_id is  *)
(* one of the preferred values, if it has a day preference its day is one  *)
(* of the preferred days, and if it has a time preference its start_slot   *)
(* is one of the preferred slots.                                          *)
(***************************************************************************)
C9_PreferencesRespected ==
    \A c \in Placements :
        LET preferred_rooms ==
                PreferredValues(class_preferences, c.class_id, "room")
            preferred_days ==
                PreferredValues(class_preferences, c.class_id, "day")
            preferred_times ==
                PreferredValues(class_preferences, c.class_id, "time")
        IN  /\ Len(preferred_rooms) > 0 => c.room_id \in Range(preferred_rooms)
            /\ Len(preferred_days) > 0 => c.day \in Range(preferred_days)
            /\ Len(preferred_times) > 0
                   => c.start_slot \in Range(preferred_times)

\* a class with a single preferred room is placed there, after another
\* class, while a room with no class at all is open on the same slots
C9_Witness ==
    \E c \in Placements, r \in RoomIds :
        /\ Len(PreferredValues(class_preferences, c.class_id, "room")) = 1
        /\ \E o \in Placements :
               o.class_id # c.class_id /\ o.room_id = c.room_id
        /\ r # c.room_id
        /\ \A o \in Placements : o.room_id # r
        /\ \A s \in c.start_slot .. (c.end_slot - 1) :
               <<r, c.day_idx, s>> \in room_time_slots

(***************************************************************************)
(* C10 as stated: when several candidate slots of a class share the        *)
(* highest score, the placer chooses the first one in lexicographic        *)
(* (room_id, day_idx, start_slot) order.                                   *)
(***************************************************************************)
\* the candidates of the class about to be placed that have the top score
TopSlots ==
    LET class_data == sorted_classes[idx + 1]
        scored_slots == ScoredSlots(class_data, room_time_slots, rooms,
                                    class_preferences, scheduled_classes)
        top == SetMax({a[1] : a \in scored_slots})
    IN  {a[2] : a \in {b \in scored_slots : b[1] = top}}

\* this step places a class
Places ==
    /\ pc = "place"
    /\ Len(scheduled_classes') = Len(scheduled_classes) + 1

ChosenSlot ==
    LET c == scheduled_classes'[Len(scheduled_classes')]
    IN  <<c.room_id, c.day_idx, c.start_slot>>

C11_StatsConsistent ==
    pc = "done" =>
        /\ stats.scheduled_classes + stats.unscheduled_by_room
               + stats.unscheduled_by_teacher = stats.total_classes
        /\ stats.total_classes = Len(classes)
        /\ \A i \in 1 .. Len(classes) :
               Cardinality(
                   {j \in 1 .. Len(assigned_classes) :
                       assigned_classes[j].class_id = classes[i].class_id})
               + Cardinality(
                   {j \in 1 .. Len(unscheduled_classes) :
                       unscheduled_classes[j].class_id
                           = classes[i].class_id})
               + Cardinality(
                   {j \in 1 .. Len(unassigned_classes) :
                       unassigned_classes[j].class_id
                           = classes[i].class_id}) = 1

\* a finished run with a class in each of two lists, one of them the list of
\* the classes without a teacher
C11_Witness ==
    /\ pc = "done"
    /\ stats.unscheduled_by_teacher = 1
    /\ stats.scheduled_classes + stats.unscheduled_by_room = 1

(***************************************************************************)
(* C13: marking busy is idempotent                                         *)
(***************************************************************************)
\* C13: when a class is placed and its room is marked busy on its slots,
\* with the propagation to the accordion partners, marking the same room,
\* day and slots a second time leaves the matrix as the first marking left it
C13_MarkingIdempotent ==
    [][Places =>
          LET c == scheduled_classes'[Len(scheduled_classes')]
          IN  UpdateRoomAvailability(room_time_slots', rooms, c.room_id,
                  c.day_idx, c.start_slot, c.duration_slots)
              = room_time_slots']_vars

\* a class has just been placed in a room that has accordion partners, on
\* slots that the marking took out of the matrix, and marking them again
\* leaves the matrix as it is
C13_Witness ==
    /\ pc = "place"
    /\ \E c \in Placements :
           /\ ConflictingRoomIds(rooms, c.room_id) # {}
           /\ \A s \in c.start_slot .. (c.end_slot - 1) :
                  /\ <<c.room_id, c.day_idx, s>> \in SeededMatrix
                  /\ <<c.room_id, c.day_idx, s>> \notin room_time_slots
           /\ UpdateRoomAvailability(room_time_slots, rooms, c.room_id,
                  c.day_idx, c.start_slot, c.duration_slots) = room_time_slots

(***************************************************************************)
(* C19, C20: input errors                                                  *)
(***************************************************************************)
\* C19: a day name that is not one of the seven English day names is never
\* turned into a day index that is stored in the room availability mapping:
\* every key of the mapping has a day index of a day of the week
C19_UnknownDayNotStored ==
    \A key \in room_availability : key[2] \in 0 .. (Len(DayNames) - 1)

\* the component names of combined rooms that are the name of no room
UnresolvedComponents ==
    {name \in UNION {Range(rooms[i].component_rooms) :
                        i \in {k \in 1 .. Len(rooms) : HasComponents(rooms[k])}} :
        \A j \in 1 .. Len(rooms) : rooms[j].room_name # name}

\* C20: when a combined room lists a component name that is the name of no
\* room, the input is rejected before any class is placed: the run makes no
\* placement and does not complete
C20_UnresolvedComponentRejected ==
    UnresolvedComponents # {} =>
        /\ scheduled_classes = <<>>
        /\ pc # "done"

(***************************************************************************)
(* C14-C16, C18: teacher assignment                                        *)
(***************************************************************************)
\* the teachers of the teacher availability input
TeacherIds == {key[1] : key \in teacher_availability}

\* teacher t is free, in availability ta, on every slot of placement sc
FreeFor(ta, t, sc) ==
    \A s \in sc.start_slot .. (sc.end_slot - 1) : <<t, sc.day_idx, s>> \in ta

\* the placement the teacher loop is about to process
InTeacherLoop == pc = "assign" /\ idx < Len(scheduled_classes)

CandidateTeacherIds ==
    {a[2] : a \in AvailableTeachers(scheduled_classes[idx + 1], teacher_avail,
                                    class_preferences, teacher_specializations)}

\* C15: when a placement is processed, the candidate teachers are exactly the
\* teachers of the teacher availability input that are free, in the current
\* availability, on every slot of the placement
C15_CandidatesAreFreeTeachers ==
    InTeacherLoop =>
        CandidateTeacherIds =
            {t \in TeacherIds :
                FreeFor(teacher_avail, t, scheduled_classes[idx + 1])}

\* every teacher the inputs know of
KnownTeacherIds == TeacherIds \cup DOMAIN teacher_specializations

UnassignedReason == "No available teacher found"

\* C14: if no teacher is free on every slot of a placement when the teacher
\* loop processes it, the placement keeps a null teacher_id; and once the
\* lists are split every placement with a null teacher_id is in the
\* unassigned list with the teacher reason, is not in the final scheduled
\* list, and is counted in unscheduled_by_teacher
C14_NoTeacherMeansUnassigned ==
    /\ [][(/\ InTeacherLoop
           /\ \A t \in KnownTeacherIds :
                  ~FreeFor(teacher_avail, t, scheduled_classes[idx + 1]))
          => /\ idx' = idx + 1
             /\ scheduled_classes'[idx + 1].teacher_id = None]_vars
    /\ [](pc \in {"stats", "done"} =>
            /\ \A i \in 1 .. Len(scheduled_classes) :
                   scheduled_classes[i].teacher_id = None =>
                       /\ WithReason(scheduled_classes[i], UnassignedReason)
                              \in Range(unassigned_classes)
                       /\ scheduled_classes[i] \notin Range(assigned_classes)
            /\ pc = "done" =>
                   stats.unscheduled_by_teacher =
                       Cardinality({i \in 1 .. Len(scheduled_classes) :
                           scheduled_classes[i].teacher_id = None}))

\* a finished run with a placement on which no teacher of the input was free
\* and that sits in the unassigned list
C14_Witness ==
    /\ pc = "done"
    /\ \E i \in 1 .. Len(unassigned_classes) :
           /\ unassigned_classes[i].teacher_id = None
           /\ KnownTeacherIds # {}
           /\ \A t \in KnownTeacherIds :
                  ~FreeFor(teacher_availability, t, unassigned_classes[i])

\* the preferred teachers of the placement about to be processed
PreferredIds(sc) ==
    {PreferredTeachers(class_preferences, sc.class_id)[i].value :
        i \in 1 .. Len(PreferredTeachers(class_preferences, sc.class_id))}

\* the teachers with a specialization entry that are free for placement sc
FreeSpecialists(ta, sc) ==
    {t \in DOMAIN teacher_specializations : FreeFor(ta, t, sc)}

\* C16: a teacher preference is soft. When the placement processed has
\* preferred teachers, none of them is free on all its slots, and a teacher
\* with a specialization entry is, the placement gets one of the free
\* teachers; a placement with a teacher is in the final scheduled list and
\* not in the unassigned list
C16_TeacherPreferenceIsSoft ==
    /\ [][(/\ InTeacherLoop
           /\ PreferredIds(scheduled_classes[idx + 1]) # {}
           /\ \A t \in PreferredIds(scheduled_classes[idx + 1]) :
                  ~FreeFor(teacher_avail, t, scheduled_classes[idx + 1])
           /\ FreeSpecialists(teacher_avail, scheduled_classes[idx + 1]) # {})
          => scheduled_classes'[idx + 1].teacher_id
                 \in FreeSpecialists(teacher_avail, scheduled_classes[idx + 1])]_vars
    /\ [](pc \in {"stats", "done"} =>
            \A i \in 1 .. Len(scheduled_classes) :
                scheduled_classes[i].teacher_id # None =>
                    /\ scheduled_classes[i] \in Range(assigned_classes)
                    /\ \A j \in 1 .. Len(unassigned_classes) :
                           unassigned_classes[j].class_id
                               # scheduled_classes[i].class_id)

\* a finished run with a class whose preferred teacher was never free on its
\* slots and that has another teacher
C16_Witness ==
    /\ pc = "done"
    /\ \E c \in Range(assigned_classes) :
           /\ PreferredIds(c) # {}
           /\ \A t \in PreferredIds(c) : ~FreeFor(teacher_availability, t, c)
           /\ c.teacher_id \in DOMAIN teacher_specializations

\* C18: every record of the final scheduled list has a teacher, and that
\* teacher is available in the input teacher availability on every slot of
\* the record
C18_ScheduledHaveAvailableTeacher ==
    \A c \in Range(assigned_classes) :
        /\ c.teacher_id # None
        /\ FreeFor(teacher_availability, c.teacher_id, c)

\* a finished run with a class of more than one slot taught by the teacher
\* who is free on part of the day only
C18_Witness ==
    /\ pc = "done"
    /\ \E c \in Range(assigned_classes) :
           /\ c.duration_slots > 1
           /\ \E s \in Slots : <<c.teacher_id, c.day_idx, s>> \notin teacher_availability

(***************************************************************************)
(* C17: continuity bonus                                                   *)
(***************************************************************************)
\* the slot that starts where placement sc ends, in its room and on its day
AdjacentAfter(sc) == <<sc.room_id, sc.day_idx, sc.end_slot>>

\* the class about to be placed has no preferences and is of the style and
\* one level above the only class placed so far, and the slot adjacent to
\* that class is one of its candidates
ContinuityCase ==
    /\ pc = "place"
    /\ idx < Len(sorted_classes)
    /\ Len(scheduled_classes) = 1
    /\ ~HasKey(class_preferences, sorted_classes[idx + 1].class_id)
    /\ scheduled_classes[1].style = sorted_classes[idx + 1].style
    /\ scheduled_classes[1].level + 1 = sorted_classes[idx + 1].level
    /\ AdjacentAfter(scheduled_classes[1])
           \in find_compatible_slots(sorted_classes[idx + 1], room_time_slots,
                                     rooms, class_preferences)

\* the candidates at the day and start of the adjacent slot in another room,
\* which is empty
EmptyRoomSlots ==
    {slot \in find_compatible_slots(sorted_classes[idx + 1], room_time_slots,
                                    rooms, class_preferences) :
        /\ slot[1] # scheduled_classes[1].room_id
        /\ slot[2] = scheduled_classes[1].day_idx
        /\ slot[3] = scheduled_classes[1].end_slot}

SlotScore(slot) ==
    score_slot(slot, sorted_classes[idx + 1], class_preferences,
               scheduled_classes, rooms)

\* C17: for a class with no preferences, the candidate that starts where the
\* only placed class, of the same style and one level lower, ends, in its
\* room and on its day, scores 8, every candidate at that day and start in
\* an empty room scores 3, and the class is placed in the adjacent slot
C17_ContinuityWins ==
    [][ContinuityCase =>
          /\ SlotScore(AdjacentAfter(scheduled_classes[1])) = 8
          /\ \A slot \in EmptyRoomSlots :
                 /\ SlotScore(slot) = 3
                 /\ SlotScore(slot)
                        < SlotScore(AdjacentAfter(scheduled_classes[1]))
          /\ Places
          /\ ChosenSlot = AdjacentAfter(scheduled_classes[1])]_vars

\* the second class placed has no preferences and follows the first one, of
\* its style and one level lower, in the same room, while another room was
\* open and empty on the same slots
C17_Witness ==
    /\ pc = "place"
    /\ Len(scheduled_classes) = 2
    /\ ~HasKey(class_preferences, scheduled_classes[2].class_id)
    /\ scheduled_classes[1].style = scheduled_classes[2].style
    /\ scheduled_classes[1].level + 1 = scheduled_classes[2].level
    /\ scheduled_classes[2].room_id = scheduled_classes[1].room_id
    /\ scheduled_classes[2].day_idx = scheduled_classes[1].day_idx
    /\ scheduled_classes[2].start_slot = scheduled_classes[1].end_slot
    /\ \E r \in RoomIds \ {scheduled_classes[1].room_id} :
           \A s \in scheduled_classes[2].start_slot
                     .. (scheduled_classes[2].end_slot - 1) :
               <<r, scheduled_classes[2].day_idx, s>> \in room_time_slots

(***************************************************************************)
(* C21: the overlap auditor                                                *)
(***************************************************************************)
\* the rooms named a and b are a combined room and one of its components
PartnerNames(a, b) ==
    \E x \in Range(rooms) :
        /\ x.is_combined
        /\ \/ x.room_name = a /\ b \in Range(x.component_rooms)
           \/ x.room_name = b /\ a \in Range(x.component_rooms)

\* C21: when the auditor has gone through the sheet, the pairs of rows it
\* reports are exactly the pairs that are on the same day, whose time
\* intervals overlap, and that are in the same room or in accordion-partner
\* rooms
C21_AuditorReportsConflicts ==
    pc = "audited" =>
        Range(overlaps) =
            {p \in (0 .. (Len(df) - 1)) \X (0 .. (Len(df) - 1)) :
                /\ p[1] < p[2]
                /\ df[p[1] + 1].Day = df[p[2] + 1].Day
                /\ TimeLess(df[p[1] + 1].Start, df[p[2] + 1].End)
                /\ TimeLess(df[p[2] + 1].Start, df[p[1] + 1].End)
                /\ \/ df[p[1] + 1].Room = df[p[2] + 1].Room
                   \/ PartnerNames(df[p[1] + 1].Room, df[p[2] + 1].Room)}

(***************************************************************************)
(* C22-C24: the life of a class in the placement loop                      *)
(***************************************************************************)
\* the preferences of kind `kind` of class c, as a set of values; empty when
\* the class has none
PreferenceSet(c, kind) ==
    IF c.class_id \in DOMAIN class_preferences
    THEN IF kind \in DOMAIN class_preferences[c.class_id]
         THEN {class_preferences[c.class_id][kind][i].value :
                  i \in 1 .. Len(class_preferences[c.class_id][kind])}
         ELSE {}
    ELSE {}

\* the candidates of class c on the current matrix, as the specification
\* words them
CompatibleTriples(c) ==
    {t \in RoomIds \X (0 .. 6) \X Slots :
        /\ PreferenceSet(c, "room") = {} \/ t[1] \in PreferenceSet(c, "room")
        /\ PreferenceSet(c, "day") = {}
               \/ \E d \in PreferenceSet(c, "day") : day_to_index(d) = t[2]
        /\ PreferenceSet(c, "time") = {} \/ t[3] \in PreferenceSet(c, "time")
        /\ \A s \in t[3] .. (t[3] + c.duration_slots - 1) :
               <<t[1], t[2], s>> \in room_time_slots}

ClassState(class_id) ==
    IF \E i \in 1 .. Len(scheduled_classes) :
           scheduled_classes[i].class_id = class_id
    THEN "Placed"
    ELSE IF \E i \in 1 .. Len(unscheduled_classes) :
                unscheduled_classes[i].class_id = class_id
         THEN "UnscheduledRoom"
         ELSE "Pending"

\* the (room, day, start_slot) of a placed class
PlacementOf(class_id) ==
    LET c == CHOOSE x \in Range(scheduled_classes) : x.class_id = class_id
    IN  <<c.room_id, c.day_idx, c.start_slot>>

InputClassIds == {classes[i].class_id : i \in 1 .. Len(classes)}

\* the number of records of a class in the two lists of phase 1
TerminalRecords(class_id) ==
    Cardinality({i \in 1 .. Len(scheduled_classes) :
                    scheduled_classes[i].class_id = class_id})
    + Cardinality({i \in 1 .. Len(unscheduled_classes) :
                      unscheduled_classes[i].class_id = class_id})

\* C22: a class leaves Pending only at its turn in the placement loop, to
\* Placed if it has a compatible candidate then and to UnscheduledRoom
\* otherwise; a class that is Placed or UnscheduledRoom stays so and keeps
\* its (room, day, start_slot) in every later step of phase 1 and of the
\* teacher pass; no class has two terminal records and after the placement
\* loop every class has one
C22_ClassLifeCycle ==
    /\ [][\A id \in InputClassIds :
            /\ ClassState(id) # "Pending" =>
                   /\ ClassState(id)' = ClassState(id)
                   /\ ClassState(id) = "Placed" =>
                          PlacementOf(id)' = PlacementOf(id)
            /\ (ClassState(id) = "Pending" /\ ClassState(id)' # "Pending") =>
                   /\ pc = "place"
                   /\ idx < Len(sorted_classes)
                   /\ sorted_classes[idx + 1].class_id = id
                   /\ ClassState(id)' = "Placed"
                          <=> CompatibleTriples(sorted_classes[idx + 1]) # {}]_vars
    /\ [](\A id \in InputClassIds :
            /\ TerminalRecords(id) <= 1
            /\ pc \in {"assign", "stats", "done"} => TerminalRecords(id) = 1)

\* a finished run in which one class was placed and another was not
C22_Witness ==
    /\ pc = "done"
    /\ \E a \in InputClassIds, b \in InputClassIds :
           /\ ClassState(a) = "Placed"
           /\ ClassState(b) = "UnscheduledRoom"

\* C23: the placement loop terminates with every input class in a terminal
\* state: the run reaches the teacher pass, and then every class is Placed
\* or UnscheduledRoom, also a class ranked after one that could not be
\* placed
C23_PlacementLoopTerminates ==
    <>(/\ pc = "assign"
       /\ \A id \in InputClassIds : ClassState(id) # "Pending")

\* the placement loop is over, the class ranked first could not be placed
\* and the class ranked after it was placed
C23_Witness ==
    /\ pc = "assign"
    /\ Len(sorted_classes) = 2
    /\ ClassState(sorted_classes[1].class_id) = "UnscheduledRoom"
    /\ ClassState(sorted_classes[2].class_id) = "Placed"

\* the difficulty score of a class of the input, as the ranker computes it
ScoreOf(c) ==
    difficulty_score(c, class_preferences,
                     DifficultyScale(classes, class_preferences))

\* C24: when a class has its turn in the placement loop, every class with a
\* strictly higher difficulty score has had its turn and every class with a
\* strictly lower score is still pending, so that the matrix holds no
\* placement of a class of lower score
C24_HarderClassesChooseFirst ==
    (pc = "place" /\ idx < Len(sorted_classes)) =>
        \A i \in 1 .. Len(classes) :
            /\ ScoreOf(classes[i]) > ScoreOf(sorted_classes[idx + 1]) =>
                   ClassState(classes[i].class_id) # "Pending"
            /\ ScoreOf(classes[i]) < ScoreOf(sorted_classes[idx + 1]) =>
                   ClassState(classes[i].class_id) = "Pending"

\* the class with the smaller class_id has the strictly higher score, has
\* been placed, and the other class has its turn
C24_Witness ==
    /\ pc = "place"
    /\ idx = 1
    /\ Len(sorted_classes) = 2
    /\ ScoreOf(sorted_classes[1]) > ScoreOf(sorted_classes[2])
    /\ sorted_classes[1].class_id < sorted_classes[2].class_id
    /\ ClassState(sorted_classes[1].class_id) = "Placed"

(***************************************************************************)
(* C25, C26: the difficulty ranker                                         *)
(***************************************************************************)
\* the number of preferences of kind `kind` of class c
PreferenceCount(c, kind) ==
    IF c.class_id \in DOMAIN class_preferences
    THEN IF kind \in DOMAIN class_preferences[c.class_id]
         THEN Len(class_preferences[c.class_id][kind])
         ELSE 0
    ELSE 0

\* the score of the claim, times the scale of ScoreOf: the penalties apply
\* to every class without a preference of the kind
ClaimedDifficulty(c) ==
    LET scale == DifficultyScale(classes, class_preferences)
    IN  10 * c.duration_slots * scale
        + (IF PreferenceCount(c, "room") > 0
           THEN (50 * scale) \div PreferenceCount(c, "room")
           ELSE -20 * scale)
        + (IF PreferenceCount(c, "day") > 0
           THEN (30 * scale) \div PreferenceCount(c, "day")
           ELSE -15 * scale)
        + 5 * PreferenceCount(c, "time") * scale

\* C25: the difficulty score of every class the ranker has ranked is
\* 10 x duration_slots, plus 50 / n_room_prefs or minus 20, plus
\* 30 / n_day_prefs or minus 15, plus 5 x n_time_slots, the penalties
\* applying to every class without that kind of preference
C25_DifficultyFormula ==
    pc = "place" =>
        \A i \in 1 .. Len(sorted_classes) :
            ScoreOf(sorted_classes[i]) = ClaimedDifficulty(sorted_classes[i])

C27_EnumeratorExact ==
    (pc = "place" /\ idx < Len(sorted_classes)) =>
        find_compatible_slots(sorted_classes[idx + 1], room_time_slots, rooms,
                              class_preferences)
            = CompatibleTriples(sorted_classes[idx + 1])

\* the class that has its turn prefers a room, a day and a start slot, has a
\* candidate, and a slot that is free for it is not among its candidates
C27_Witness ==
    /\ pc = "place"
    /\ idx < Len(sorted_classes)
    /\ PreferenceSet(sorted_classes[idx + 1], "room") # {}
    /\ PreferenceSet(sorted_classes[idx + 1], "day") # {}
    /\ PreferenceSet(sorted_classes[idx + 1], "time") # {}
    /\ find_compatible_slots(sorted_classes[idx + 1], room_time_slots, rooms,
                             class_preferences) # {}
    /\ \E t \in RoomIds \X Days \X Slots :
           /\ \A s \in t[3] .. (t[3] + sorted_classes[idx + 1].duration_slots - 1) :
                  <<t[1], t[2], s>> \in room_time_slots
           /\ t \notin find_compatible_slots(sorted_classes[idx + 1],
                           room_time_slots, rooms, class_preferences)

(***************************************************************************)
(* C28: the time-preference part of a slot score                           *)
(***************************************************************************)
\* the weights of the time preferences of class c whose slot lies in
\* [start_slot, start_slot + duration_slots)
CoveredTimeWeights(c, start_slot) ==
    IF c.class_id \in DOMAIN class_preferences
    THEN IF "time" \in DOMAIN class_preferences[c.class_id]
         THEN {class_preferences[c.class_id]["time"][i].weight :
                  i \in {k \in 1 .. Len(class_preferences[c.class_id]["time"]) :
                      /\ start_slot
                             <= class_preferences[c.class_id]["time"][k].value
                      /\ class_preferences[c.class_id]["time"][k].value
                             < start_slot + c.duration_slots}}
         ELSE {}
    ELSE {}

\* C28: for every candidate of the class that has its turn, the
\* time-preference part of the score is 5 x w for a time preference of
\* weight w whose slot lies in [start_slot, start_slot + duration_slots) of
\* the candidate, and 0 when no time preference lies there
C28_TimePartOverCandidateInterval ==
    (pc = "place" /\ idx < Len(sorted_classes)) =>
        \A slot \in find_compatible_slots(sorted_classes[idx + 1],
                        room_time_slots, rooms, class_preferences) :
            LET part == TimePreferenceScore(slot, sorted_classes[idx + 1],
                                            class_preferences)
                weights == CoveredTimeWeights(sorted_classes[idx + 1], slot[3])
            IN  IF weights = {} THEN part = 0
                ELSE \E w \in weights : part = 5 * w

(***************************************************************************)
(* C29: the score of a teacher                                             *)
(***************************************************************************)
\* the parts of the score as the sentence states them, for teacher t and the
\* scheduled class sc
ClaimedTeacherScore(t, sc) ==
    LET pt == PreferredTeachers(class_preferences, sc.class_id)
        entries == {i \in 1 .. Len(pt) : pt[i].value = t}
        first == CHOOSE i \in entries : \A j \in entries : i <= j
        sp == teacher_specializations[t]
        Listed(kind) == IF kind \in DOMAIN sp THEN sp[kind] ELSE <<>>
        groups == Listed("age_group")
    IN  (IF entries = {} THEN 0 ELSE 10 * pt[first].weight)
      + (IF \E i \in 1 .. Len(Listed("style")) : Listed("style")[i] = sc.style
         THEN 8 ELSE 0)
      + (IF \E i \in 1 .. Len(groups) :
                /\ Len(groups[i]) = 2
                /\ groups[i][1] \in Int /\ groups[i][2] \in Int
                /\ groups[i][1] <= sc.age_start
                /\ sc.age_end <= groups[i][2]
         THEN 5 ELSE 0)
      + (IF \E i \in 1 .. Len(Listed("level")) :
                Listed("level")[i] = ToString(sc.level)
         THEN 3 ELSE 0)

\* C29: while teachers are being assigned, the score the code gives to every
\* teacher of the specialization table for the class at hand is 10 x the
\* weight of the first preferred-teacher entry naming the teacher, plus 8 for
\* a listed style, plus 5 (once) for an age group that covers the ages of the
\* class, plus 3 for the level listed as a string.
C29_TeacherScoreFormula ==
    InTeacherLoop =>
        \A t \in DOMAIN teacher_specializations :
            score_teacher(t, scheduled_classes[idx + 1],
                          PreferredTeachers(class_preferences,
                              scheduled_classes[idx + 1].class_id),
                          teacher_specializations)
                = ClaimedTeacherScore(t, scheduled_classes[idx + 1])

\* a teacher named twice by the class, with the style, two covering age
\* groups and the level, scores 10 + 8 + 5 + 3; another teacher scores 8 + 5
\* + 3 for a class whose list names someone else
C29_Witness ==
    /\ InTeacherLoop
    /\ 3 \in DOMAIN teacher_specializations
    /\ Len(PreferredTeachers(class_preferences,
               scheduled_classes[idx + 1].class_id)) = 2
    /\ score_teacher(3, scheduled_classes[idx + 1],
                     PreferredTeachers(class_preferences,
                         scheduled_classes[idx + 1].class_id),
                     teacher_specializations) = 26
    /\ score_teacher(1, scheduled_classes[idx + 1],
                     PreferredTeachers(class_preferences,
                         scheduled_classes[idx + 1].class_id),
                     teacher_specializations) \in {5, 13, 16}

(***************************************************************************)
(* C30: teachers of equal score                                            *)
(***************************************************************************)
\* the score of teacher t for placement sc
TeacherScoreOf(t, sc) ==
    score_teacher(t, sc, PreferredTeachers(class_preferences, sc.class_id),
                  teacher_specializations)

\* the free teachers of the specialization table whose score for placement
\* sc, in availability ta, is the highest
TopScorers(ta, sc) ==
    {t \in FreeSpecialists(ta, sc) :
        \A u \in FreeSpecialists(ta, sc) :
            TeacherScoreOf(u, sc) <= TeacherScoreOf(t, sc)}

RankOf(class_id) ==
    CHOOSE i \in 1 .. Len(sorted_classes) : sorted_classes[i].class_id = class_id

\* placements a and b overlap in time on one day, a starts first, and one
\* teacher of the run is free in the input on the slots of both while no
\* other teacher is free on the slots of either
OneTeacherForBoth(a, b, t) ==
    /\ a.day_idx = b.day_idx
    /\ IntervalsOverlap(a, b)
    /\ a.start_slot < b.start_slot
    /\ FreeSpecialists(teacher_availability, a) = {t}
    /\ FreeSpecialists(teacher_availability, b) = {t}

PlacedNow == scheduled_classes'[Len(scheduled_classes')]

\* C32: a step that places a class changes the availability of a (room,
\* day, slot) entry only if the day is the day of the class, the slot is one
\* of its slots, and the room is the chosen room or an accordion partner of
\* it; every other entry reads the same as before
C32_PlacementFrame ==
    [][Places =>
          \A key \in (room_time_slots \ room_time_slots')
                         \cup (room_time_slots' \ room_time_slots) :
              /\ key[2] = PlacedNow.day_idx
              /\ PlacedNow.start_slot <= key[3]
              /\ key[3] < PlacedNow.end_slot
              /\ \/ key[1] = PlacedNow.room_id
                 \/ AccordionPartners(key[1], PlacedNow.room_id)]_vars

\* component room 1 holds a class on a slot it was open on and is no longer
\* available there, while its sibling, room 2, still is; and room 1 is still
\* available on another slot of that day
C32_Witness ==
    /\ pc = "place"
    /\ \E i \in 1 .. Len(scheduled_classes) :
           LET c == scheduled_classes[i]
           IN  /\ c.room_id = 1
               /\ <<1, c.day_idx, c.start_slot>> \in SeededMatrix
               /\ <<1, c.day_idx, c.start_slot>> \notin room_time_slots
               /\ <<2, c.day_idx, c.start_slot>> \in room_time_slots
               /\ \E s \in Slots : <<1, c.day_idx, s>> \in room_time_slots

(***************************************************************************)
(* C33: duration_slots of a loaded class                                   *)
(***************************************************************************)
\* the row of the classes sheet the class comes from
SheetRowOf(class_id) ==
    CHOOSE row \in Range(classes_df) : row.class_id = class_id

\* the least number of 15-minute slots that hold a duration given in
\* twentieths of an hour: 5 twentieths make a slot
SlotsCovering(duration) ==
    CHOOSE n \in 0 .. duration : /\ 5 * n >= duration
                                 /\ \A k \in 0 .. duration : 5 * k >= duration => n <= k

\* C33: once the classes are loaded, duration_slots of every class is a
\* positive integer, the ceiling of four times its duration in hours; and
\* every placement covers at least one slot and at least the duration of its
\* class
C33_DurationSlotsIsCeiling ==
    (pc # "load_classes" /\ classes_df # <<>>) =>
        /\ \A i \in 1 .. Len(classes) :
               /\ classes[i].duration_slots \in Nat \ {0}
               /\ classes[i].duration_slots =
                      SlotsCovering(SheetRowOf(classes[i].class_id).duration)
        /\ \A i \in 1 .. Len(scheduled_classes) :
               /\ scheduled_classes[i].end_slot
                      >= scheduled_classes[i].start_slot + 1
               /\ 5 * (scheduled_classes[i].end_slot
                           - scheduled_classes[i].start_slot)
                      >= SheetRowOf(scheduled_classes[i].class_id).duration

C35_AvailabilityOnlyShrinks ==
    [][/\ pc = "seed" => room_time_slots' \subseteq room_availability
       /\ pc \in {"sort", "place"} => room_time_slots' \subseteq room_time_slots
       /\ (pc = "place" /\ pc' = "assign")
              => teacher_avail' \subseteq teacher_availability
       /\ pc = "assign" => teacher_avail' \subseteq teacher_avail]_vars

\* the teacher pass under way: seeding has closed entries of the input, a
\* placement has closed entries of the seeded matrix and an assignment has
\* closed entries of the teacher matrix
C35_Witness ==
    /\ pc = "assign"
    /\ idx >= 1
    /\ SeededMatrix # room_availability
    /\ room_time_slots # SeededMatrix
    /\ room_time_slots \subseteq SeededMatrix
    /\ teacher_avail # teacher_availability
    /\ teacher_avail \subseteq teacher_availability

(***************************************************************************)
(* C36: a combined room and its components in the matrix                   *)
(***************************************************************************)
\* C36: once the matrix is seeded, at no (day, slot) are a combined room
\* and a room it names as a component both available
C36_CombinedAndComponentNeverBothAvailable ==
    (pc \in {"sort", "place"}) =>
        \A key \in room_time_slots :
            \A r \in RoomIds :
                ListsAsComponent(key[1], r)
                    => <<r, key[2], key[3]>> \notin room_time_slots

\* phase 1 under way on an input that opens the combined room and both of
\* its components on one slot: the combined room is available there and a
\* class has been placed
C36_Witness ==
    /\ pc = "place"
    /\ idx >= 1
    /\ scheduled_classes # <<>>
    /\ \E g \in CombinedRoomIdsOfStudio, d \in Days, s \in Slots :
           /\ \A r \in AccordionGroup(g) : <<r, d, s>> \in room_availability
           /\ Cardinality(AccordionGroup(g)) = 3
           /\ <<g, d, s>> \in room_time_slots

(***************************************************************************)
(* C37: a component room next to an open, unbooked combined room           *)
(***************************************************************************)
\* C37: during phase 1 a room named as a component is available at every
\* (day, slot) the input opens it on, unless a placement holds the room
\* itself or a combined room that names it at that slot
C37_ComponentUsableUnlessCombinedBooked ==
    (pc \in {"sort", "place"}) =>
        \A key \in room_availability :
            (/\ \E g \in RoomIds : ListsAsComponent(g, key[1])
             /\ ~Occupied(key[1], key[2], key[3])
             /\ \A g \in RoomIds :
                    ListsAsComponent(g, key[1])
                        => ~Occupied(g, key[2], key[3]))
                => key \in room_time_slots

(***************************************************************************)
(* C38: phase 1 does not read teacher data                                 *)
(***************************************************************************)
\* what a placement record says about the room and the time of its class
RoomAndTime(c) == <<c.class_id, c.room_id, c.day_idx, c.start_slot>>

\* the result of phase 1 computed from the classes, the rooms, the room
\* availability and the class preferences of the run, and from nothing else
PhaseOneResult ==
    assign_classes_to_slots(classes, rooms, room_availability,
                            class_preferences)

\* C38: from the end of phase 1 to the end of the run, whatever the teacher
\* availability and the teacher specializations are, the placed classes and
\* their (room, day, start_slot), the classes without a room and the room
\* matrix are those that the classes, rooms, room availability and class
\* preferences determine; a placement keeps its room and time and its slots
\* stay unavailable whether or not it gets a teacher
C38_PlacementsIgnoreTeacherData ==
    (pc \in {"assign", "stats", "done"}) =>
        /\ {RoomAndTime(scheduled_classes[i]) :
               i \in 1 .. Len(scheduled_classes)}
             = {RoomAndTime(PhaseOneResult.scheduled_classes[i]) :
                   i \in 1 .. Len(PhaseOneResult.scheduled_classes)}
        /\ unscheduled_classes = PhaseOneResult.unscheduled_classes
        /\ room_time_slots = PhaseOneResult.room_time_slots
        /\ \A i \in 1 .. Len(scheduled_classes) :
               \A s \in scheduled_classes[i].start_slot
                            .. (scheduled_classes[i].end_slot - 1) :
                   <<scheduled_classes[i].room_id,
                     scheduled_classes[i].day_idx, s>> \notin room_time_slots

\* a finished run in which a teacher is free on no slot, two classes hold
\* rooms and one of them is left without a teacher
C38_Witness ==
    /\ pc = "done"
    /\ Len(scheduled_classes) = 2
    /\ \E t \in DOMAIN teacher_specializations :
           \A key \in teacher_availability : key[1] # t
    /\ \E i \in 1 .. Len(unassigned_classes) :
           unassigned_classes[i].teacher_id = None
    /\ assigned_classes # <<>>

(***************************************************************************)
(* C39: two combined rooms with a component in common                      *)
(***************************************************************************)
\* two different combined rooms that name one and the same component
ShareComponent(g, h) ==
    /\ g # h
    /\ \E r \in RoomIds : ListsAsComponent(g, r) /\ ListsAsComponent(h, r)

\* C39: no two placements, one in each of two combined rooms that share a
\* component, are on the same day with overlapping slots
C39_SharedComponentNeverDoubleBooked ==
    \A i, j \in 1 .. Len(scheduled_classes) :
        (/\ ShareComponent(scheduled_classes[i].room_id,
                           scheduled_classes[j].room_id)
         /\ scheduled_classes[i].day_idx = scheduled_classes[j].day_idx)
            => ~IntervalsOverlap(scheduled_classes[i], scheduled_classes[j])

(***************************************************************************)
(* C40: a placement stays within its day                                   *)
(***************************************************************************)
\* C40: every placement of a class of one slot or more starts at slot 0 or
\* later and ends, at start_slot + duration_slots, no later than the last
\* slot boundary of the day (NumSlots stands for the 96 slots of a day)
C40_PlacementWithinDay ==
    \A i \in 1 .. Len(scheduled_classes) :
        scheduled_classes[i].duration_slots >= 1
            => /\ 0 <= scheduled_classes[i].start_slot
               /\ scheduled_classes[i].end_slot
                      = scheduled_classes[i].start_slot
                            + scheduled_classes[i].duration_slots
               /\ scheduled_classes[i].end_slot <= NumSlots

\* a class of the longest duration is placed on the last slots of a day
C40_Witness ==
    \E i \in 1 .. Len(scheduled_classes) :
        /\ scheduled_classes[i].duration_slots = MaxDuration
        /\ scheduled_classes[i].end_slot = NumSlots
        /\ scheduled_classes[i].start_slot = NumSlots - MaxDuration

====
